---- MODULE Spec2Model ----
(***************************************************************************)
(* A model of the boba interpreter: the pipeline of main.rs (tokenize,     *)
(* parse, check_types, interpret) and the tree-walking evaluator of        *)
(* interpreter.rs.                                                         *)
(*                                                                         *)
(* Text is a sequence of one-character strings, so that printing, message  *)
(* formatting and lexing are computed character by character.  A message   *)
(* built by format! is the sequence of its pieces: the literal parts of    *)
(* the format string (Lit) and the interpolated arguments (Txt).           *)
(*                                                                         *)
(* The recursive functions of the source (evaluate_expr, the descent of    *)
(* the parser, check_expr) are machines with an explicit stack of their    *)
(* running calls, run to completion inside the action that calls them.     *)
(* evaluate_expr threads the environment and the output stream as the      *)
(* &mut Environment and stdout are threaded in the source, and beside      *)
(* them a history of its calls, their results and the errors raised,       *)
(* which the properties read.                                              *)
(***************************************************************************)
EXTENDS Integers, Sequences, FiniteSets, TLC

VARIABLES
    program,      \* interpret: the Program being interpreted
    env,          \* interpret: the top-level Environment (variables, functions)
    pc,           \* interpret: "idle", "start", "run", "ok", "err", "abort"
    next_stmt,    \* interpret: index of the next statement of the entry loop
    out,          \* stdout: the characters printed so far
    log,          \* history of evaluate_expr: see Event kinds below
    frames,       \* number of call frames (func_env) created so far
    result,       \* what interpret returned: <<>> for Ok(()), else the error message
    source,       \* run_program: the source text
    stage,        \* run_program: the point it has reached
    tokens,       \* run_program: `tokens`
    ast,          \* run_program: `ast`
    type_errors,  \* run_program: `type_errors`
    calls,        \* history of run_program: the stages it has called, in order
    outcome,      \* what run_program returned: [ok, err]
    given,        \* a function called on its own: [fn, args], the function and its arguments
    returned,     \* that call: <<>> before it returns, then <<its result>>
    parser        \* parse called on its own: the Parser and its running calls

interp_vars == <<program, env, pc, next_stmt, out, log, frames, result>>

pipeline_vars == <<source, stage, tokens, ast, type_errors, calls, outcome>>

call_vars == <<given, returned, parser>>

all_vars == <<interp_vars, pipeline_vars, call_vars>>

------------------------------------------------------------------------------
(* Bounds of the model. *)

\* Longest top-level statement sequence (main_block) drawn as input.
MaxStmts == 2

\* Deepest nesting of call frames the model follows; a deeper nesting is the
\* stack overflow of the unbounded recursion of evaluate_expr.
MaxCallDepth == 3

\* Most pieces of source text put together into a source for run_program.
MaxFragments == 2

\* Most elements of a list literal handed to check_types.
MaxItems == 3

\* Most literals of a source made of literals only.
MaxLiterals == 2

\* Most pieces of text put together into a source for tokenize.
MaxPieces == 2

------------------------------------------------------------------------------
(* Text. *)

\* In(value), with value computed once and then bound.
With(value, In(_)) == CHOOSE y \in {In(v) : v \in {value}} : TRUE

\* The members of a set of numbers, in ascending order.
RECURSIVE Ascending(_)
Ascending(S) ==
    IF S = {} THEN <<>>
    ELSE LET least == CHOOSE x \in S : \A y \in S : x <= y
         IN  <<least>> \o Ascending(S \ {least})

Lit(s) == [lit |-> s, txt |-> <<>>]
Txt(chars) == [lit |-> "", txt |-> chars]

Digits == <<"0", "1", "2", "3", "4", "5", "6", "7", "8", "9">>

RECURSIVE NatToChars(_)
NatToChars(n) ==
    IF n < 10 THEN <<Digits[n + 1]>>
    ELSE NatToChars(n \div 10) \o <<Digits[(n % 10) + 1]>>

\* Display of an i64 / usize: print!("{}", n), n.to_string().
IntToChars(n) == IF n < 0 THEN <<"-">> \o NatToChars(-n) ELSE NatToChars(n)

------------------------------------------------------------------------------
(* types.rs: Type and Value. *)

TInt == [ty |-> "Int"]
TFloat == [ty |-> "Float"]
TString == [ty |-> "String"]
TBool == [ty |-> "Bool"]
TNull == [ty |-> "Null"]
TAny == [ty |-> "Any"]
TList(elem) == [ty |-> "List", elem |-> elem]
TMap(key, val) == [ty |-> "Map", key |-> key, val |-> val]

VInt(n) == [t |-> "Int", n |-> n]
\* A Float is the decimal num / 10^scale, num not divisible by 10 unless
\* scale = 0 (the literals and conversions of the model yield short decimals,
\* which f64 parses and displays without change).
VFloat(num, scale) == [t |-> "Float", num |-> num, scale |-> scale]
VString(s) == [t |-> "String", s |-> s]
VBool(b) == [t |-> "Bool", b |-> b]
VNull == [t |-> "Null"]
VList(items) == [t |-> "List", items |-> items]
VMap(entries) == [t |-> "Map", entries |-> entries]
VFunction(name, params, return_types, body) ==
    [t |-> "Function", name |-> name, params |-> params,
     return_types |-> return_types, body |-> body]

------------------------------------------------------------------------------
(* ast.rs: Expr, FunctionDef, Program. *)

IntLiteral(n) == [kind |-> "IntLiteral", n |-> n]
FloatLiteral(num, scale) == [kind |-> "FloatLiteral", num |-> num, scale |-> scale]
StringLiteral(s) == [kind |-> "StringLiteral", s |-> s]
BoolLiteral(b) == [kind |-> "BoolLiteral", b |-> b]
NullLiteral == [kind |-> "NullLiteral"]
List(items) == [kind |-> "List", items |-> items]
Map(entries) == [kind |-> "Map", entries |-> entries]
Identifier(name) == [kind |-> "Identifier", name |-> name]
VarDeclaration(name, value) == [kind |-> "VarDeclaration", name |-> name, value |-> value]
Return(values) == [kind |-> "Return", values |-> values]
FunctionCall(name, args) == [kind |-> "FunctionCall", name |-> name, args |-> args]
Output(args) == [kind |-> "Output", args |-> args]
OutputFormatted(e) == [kind |-> "OutputFormatted", expr |-> e]
TypeConversion(e, target_type) ==
    [kind |-> "TypeConversion", expr |-> e, target_type |-> target_type]
\* The node kinds evaluate_expr has no arm for.
Continue == [kind |-> "Continue"]
Break == [kind |-> "Break"]
\* operator: the name of the BinaryOperator or UnaryOperator variant.
BinaryOp(left, operator, right) ==
    [kind |-> "BinaryOp", left |-> left, operator |-> operator, right |-> right]
UnaryOp(operator, e) == [kind |-> "UnaryOp", operator |-> operator, expr |-> e]
\* else_if_branches: a sequence of <<condition, branch>>; an Option is a
\* sequence of at most one element.
If(condition, then_branch, else_if_branches, else_branch) ==
    [kind |-> "If", condition |-> condition, then_branch |-> then_branch,
     else_if_branches |-> else_if_branches, else_branch |-> else_branch]
Loop(init, condition, update, body) ==
    [kind |-> "Loop", init |-> init, condition |-> condition, update |-> update, body |-> body]
OutputAddress(e) == [kind |-> "OutputAddress", expr |-> e]
Input(e) == [kind |-> "Input", expr |-> e]
InputFormatted(e) == [kind |-> "InputFormatted", expr |-> e]
TypeCheck(e, check_type, is_negated) ==
    [kind |-> "TypeCheck", expr |-> e, check_type |-> check_type, is_negated |-> is_negated]

\* params: a sequence of <<name, type>>.
FunctionDef(name, params, return_types, body) ==
    [name |-> name, params |-> params, return_types |-> return_types, body |-> body]

\* functions: a function from names to FunctionDef (the HashMap).
Program(functions, main_block) == [functions |-> functions, main_block |-> main_block]

EmptyMap == [n \in {} |-> VNull]

\* HashMap::insert.
Insert(map, key, value) == [k \in DOMAIN map \cup {key} |-> IF k = key THEN value ELSE map[k]]

------------------------------------------------------------------------------
(* interpreter.rs: Environment. *)

Environment_new == [variables |-> EmptyMap, functions |-> EmptyMap]

\* A define that keeps the binding a name already has.
define_keep(e, name, value) ==
    IF name \in DOMAIN e.variables THEN e
    ELSE [e EXCEPT !.variables = Insert(e.variables, name, value)]

\* A define that enters the name in both maps of the environment.
define_shared(e, name, value) ==
    [e EXCEPT !.variables = Insert(e.variables, name, value),
              !.functions = Insert(e.functions, name, value)]

define(e, name, value) == [e EXCEPT !.variables = Insert(e.variables, name, value)]

define_function(e, name, value) == [e EXCEPT !.functions = Insert(e.functions, name, value)]

\* Environment::get and get_function return an Option: Some iff the name is bound.
has(e, name) == name \in DOMAIN e.variables

has_function(e, name) == name \in DOMAIN e.functions

------------------------------------------------------------------------------
(* interpreter.rs: print_value.  What print! writes, as characters. *)

\* Display of an f64 that is the decimal num / 10^scale.
FloatToChars(num, scale) ==
    LET RECURSIVE Pow10(_)
        Pow10(k) == IF k = 0 THEN 1 ELSE 10 * Pow10(k - 1)
        RECURSIVE Pad(_, _)
        Pad(chars, width) == IF Len(chars) >= width THEN chars ELSE Pad(<<"0">> \o chars, width)
        mag == IF num < 0 THEN -num ELSE num
        sign == IF num < 0 THEN <<"-">> ELSE <<>>
    IN  IF scale = 0 THEN IntToChars(num)
        ELSE sign \o NatToChars(mag \div Pow10(scale)) \o <<".">>
                  \o Pad(NatToChars(mag % Pow10(scale)), scale)

RECURSIVE print_value(_)
print_value(value) ==
    LET RECURSIVE Items(_, _)
        Items(items, i) ==
            IF i > Len(items) THEN <<>>
            ELSE (IF i > 1 THEN <<",", " ">> ELSE <<>>) \o print_value(items[i]) \o Items(items, i + 1)
        RECURSIVE Entries(_, _)
        Entries(entries, i) ==
            IF i > Len(entries) THEN <<>>
            ELSE (IF i > 1 THEN <<",", " ">> ELSE <<>>)
                 \o print_value(entries[i][1]) \o <<":">> \o print_value(entries[i][2])
                 \o Entries(entries, i + 1)
    IN  CASE value.t = "Int" -> IntToChars(value.n)
          [] value.t = "Float" -> FloatToChars(value.num, value.scale)
          [] value.t = "String" -> value.s
          [] value.t = "Bool" -> IF value.b THEN <<"t", "r", "u", "e">> ELSE <<"f", "a", "l", "s", "e">>
          [] value.t = "Null" -> <<"n", "u", "l", "l">>
          [] value.t = "List" -> <<"[">> \o Items(value.items, 1) \o <<"]">>
          [] value.t = "Map" -> <<"[">> \o Entries(value.entries, 1) \o <<"]">>
          [] value.t = "Function" ->
                <<"<", "f", "u", "n", "c", "t", "i", "o", "n", " ">> \o value.name \o <<">">>

------------------------------------------------------------------------------
(* Conversions of strings used by the TypeConversion arm. *)

IsDigit(c) == \E d \in 1..10 : Digits[d] = c

DigitValue(c) == (CHOOSE d \in 1..10 : Digits[d] = c) - 1

RECURSIVE DigitsValue(_)
DigitsValue(chars) ==
    IF chars = <<>> THEN 0
    ELSE 10 * DigitsValue(SubSeq(chars, 1, Len(chars) - 1)) + DigitValue(chars[Len(chars)])

AllDigits(chars) == \A i \in 1..Len(chars) : IsDigit(chars[i])

\* str::parse::<i64>: an optional sign, then one or more digits.  [ok, n].
ParseInt(s) ==
    LET signed == s # <<>> /\ s[1] \in {"+", "-"}
        body == IF signed THEN Tail(s) ELSE s
    IN  IF body # <<>> /\ AllDigits(body)
        THEN [ok |-> TRUE, n |-> IF signed /\ s[1] = "-" THEN -DigitsValue(body) ELSE DigitsValue(body)]
        ELSE [ok |-> FALSE, n |-> 0]

RECURSIVE Normalize(_, _)
Normalize(num, scale) ==
    IF scale > 0 /\ num % 10 = 0 THEN Normalize(num \div 10, scale - 1)
    ELSE [num |-> num, scale |-> scale]

\* str::parse::<f64> on decimal numerals: an optional sign, digits with an
\* optional point, at least one digit.  [ok, num, scale].  (Exponents and
\* the words inf and nan are not among the strings of the model.)
ParseFloat(s) ==
    LET signed == s # <<>> /\ s[1] \in {"+", "-"}
        body == IF signed THEN Tail(s) ELSE s
        points == {i \in 1..Len(body) : body[i] = "."}
        dot == IF points = {} THEN Len(body) + 1 ELSE CHOOSE i \in points : \A j \in points : i <= j
        whole == SubSeq(body, 1, dot - 1)
        frac == SubSeq(body, dot + 1, Len(body))
        mag == DigitsValue(whole \o frac)
        norm == Normalize(IF signed /\ s[1] = "-" THEN -mag ELSE mag, Len(frac))
    IN  IF Cardinality(points) <= 1 /\ AllDigits(whole) /\ AllDigits(frac) /\ whole \o frac # <<>>
        THEN [ok |-> TRUE, num |-> norm.num, scale |-> norm.scale]
        ELSE [ok |-> FALSE, num |-> 0, scale |-> 0]

UpperCase == <<"A", "B", "C", "D", "E", "F", "G", "H", "I", "J", "K", "L", "M",
               "N", "O", "P", "Q", "R", "S", "T", "U", "V", "W", "X", "Y", "Z">>

LowerCase == <<"a", "b", "c", "d", "e", "f", "g", "h", "i", "j", "k", "l", "m",
               "n", "o", "p", "q", "r", "s", "t", "u", "v", "w", "x", "y", "z">>

\* str::to_lowercase, on ASCII text.
to_lowercase(s) ==
    [i \in 1..Len(s) |->
        IF \E u \in 1..26 : UpperCase[u] = s[i]
        THEN LowerCase[CHOOSE u \in 1..26 : UpperCase[u] = s[i]]
        ELSE s[i]]

\* `n as i64` of an f64: truncation toward zero.
FloatAsInt(num, scale) ==
    LET RECURSIVE Pow10(_)
        Pow10(k) == IF k = 0 THEN 1 ELSE 10 * Pow10(k - 1)
    IN  IF num < 0 THEN -((-num) \div Pow10(scale)) ELSE num \div Pow10(scale)

\* A {:?} argument of format!: the Debug rendering of x, kept as x.
Dbg(x) == [lit |-> "{:?}", txt |-> <<>>, dbg |-> x]

\* A conversion that also hands back a value that already has the target
\* type.
convert_same(value, target_type) ==
    IF target_type = [ty |-> value.t]
    THEN [ok |-> TRUE, value |-> value, err |-> <<>>]
    ELSE [ok |-> FALSE, value |-> VNull,
          err |-> <<Lit("Cannot convert "), Dbg(value), Lit(" to "), Dbg(target_type)>>]

\* The match of the TypeConversion arm on (value, target_type): [ok, value, err].
convert(value, target_type) ==
    LET yes(v) == [ok |-> TRUE, value |-> v, err |-> <<>>]
        no(msg) == [ok |-> FALSE, value |-> VNull, err |-> msg]
        cannot(what) == no(<<Lit("Cannot convert '"), Txt(value.s), Lit(what)>>)
    IN  CASE value.t = "Int" /\ target_type = TFloat -> yes(VFloat(value.n, 0))
          [] value.t = "Float" /\ target_type = TInt -> yes(VInt(FloatAsInt(value.num, value.scale)))
          [] value.t = "Int" /\ target_type = TString -> yes(VString(IntToChars(value.n)))
          [] value.t = "Float" /\ target_type = TString ->
                yes(VString(FloatToChars(value.num, value.scale)))
          [] value.t = "Bool" /\ target_type = TString -> yes(VString(print_value(value)))
          [] value.t = "String" /\ target_type = TInt ->
                IF ParseInt(value.s).ok THEN yes(VInt(ParseInt(value.s).n))
                ELSE cannot("' to int")
          [] value.t = "String" /\ target_type = TFloat ->
                IF ParseFloat(value.s).ok
                THEN yes(VFloat(ParseFloat(value.s).num, ParseFloat(value.s).scale))
                ELSE cannot("' to float")
          [] value.t = "String" /\ target_type = TBool ->
                IF to_lowercase(value.s) = <<"t", "r", "u", "e">> THEN yes(VBool(TRUE))
                ELSE IF to_lowercase(value.s) = <<"f", "a", "l", "s", "e">> THEN yes(VBool(FALSE))
                ELSE cannot("' to bool")
          [] OTHER -> no(<<Lit("Cannot convert "), Dbg(value), Lit(" to "), Dbg(target_type)>>)

------------------------------------------------------------------------------
(* interpreter.rs: evaluate_expr, as the machine that runs its recursion.   *)
(*                                                                          *)
(* m.stack  the activations of evaluate_expr, the innermost last.  An       *)
(*          activation holds its expression, its context ctx = [frame,      *)
(*          calls, depth] (the call frame it runs in, 0 at the top level;   *)
(*          how many calls are open; how deep the recursion is), the        *)
(*          number i of sub-evaluations that have returned to it, the       *)
(*          values acc it has collected, and for a FunctionCall its phase   *)
(*          ("args" or "body"), its func_env and the frame of its body.     *)
(* m.envs   the environments alive: the top-level one, then the func_env    *)
(*          of every call whose body is running.  An activation with        *)
(*          ctx.calls = c evaluates in m.envs[c + 1].                       *)
(* m.io     [out, log, frames]: stdout, the history, the frames created.    *)
(* m.ret    what the activation that returned last returned: Ok(value),     *)
(*          Err(message) or, beyond MaxCallDepth, Abort; "None" while a     *)
(*          new activation starts.                                          *)
(*                                                                          *)
(* Event kinds of the log:                                                  *)
(*   eval   evaluate_expr is entered for expression e                       *)
(*   done   that call returns Ok(value)                                     *)
(*   err    an Err is created (it then propagates through every `?`)        *)
(*   stmt   a statement loop (a function body, or the entry loop of         *)
(*          interpret) reaches its i-th statement                           *)
(*   enter  a call starts its body in the new frame, with the variables of  *)
(*          func_env                                                        *)
(*   exit   a call returns Ok(value) to the frame of its caller             *)
(*   overflow  the recursion exceeds MaxCallDepth                           *)
(* vars is the variable map of the environment the event happens in, funs  *)
(* its function table, and outlen the number of characters printed before   *)
(* it.                                                                      *)
(*                                                                          *)
(* Writing to stdout and flushing it are taken to succeed.                  *)

R_None == [res |-> "None", value |-> VNull, err |-> <<>>]

R_Ok(value) == [res |-> "Ok", value |-> value, err |-> <<>>]

R_Err(msg) == [res |-> "Err", value |-> VNull, err |-> msg]

R_Abort == [res |-> "Abort", value |-> VNull, err |-> <<>>]

\* The `?` operator: the result is returned to the caller at once.
Failed(r) == r.res # "Ok"

\* A func_env that starts as a clone of the caller's environment.
NewCallEnv_clone(e) == e

\* Environment::new() followed by the copy of the function definitions.
NewCallEnv(e) == [variables |-> EmptyMap, functions |-> e.functions]

\* A check that only rejects surplus arguments.
ArityMatches_atmost(args, params) == Len(args) <= Len(params)

\* args.len() != params.len() is the error; this is its negation.
ArityMatches(args, params) == Len(args) = Len(params)

\* A body loop without its break.
StopsBody_never(expr) == FALSE

\* matches!(expr, Expr::Return(_)): the statement that ends the body loop.
StopsBody(expr) == expr.kind = "Return"

\* A Return that evaluates every one of its expressions.
ReturnOperands_all(values) == values

\* The expressions of Return(values) that are evaluated: none, or values[0].
ReturnOperands(values) == IF values = <<>> THEN <<>> ELSE <<values[1]>>

\* An Output that prints the values with nothing between them.
RECURSIVE output_text_nosep(_, _)
output_text_nosep(values, i) ==
    IF i > Len(values) THEN <<"\n">>
    ELSE print_value(values[i]) \o output_text_nosep(values, i + 1)

\* What Output prints for the evaluated values: print_value of each, a space
\* before every value but the first, then the newline of println!().
RECURSIVE output_text(_, _)
output_text(values, i) ==
    IF i > Len(values) THEN <<"\n">>
    ELSE (IF i > 1 THEN <<" ">> ELSE <<>>) \o print_value(values[i]) \o output_text(values, i + 1)

\* String::replace("{", "").replace("}", "").
strip_braces(s) == SelectSeq(s, LAMBDA c : c \notin {"{", "}"})

Logged(m, event) == [m EXCEPT !.io.log = Append(@, event)]

Printed(m, chars) == [m EXCEPT !.io.out = @ \o chars]

Top(m) == m.stack[Len(m.stack)]

Pop(m) == [m EXCEPT !.stack = SubSeq(@, 1, Len(@) - 1)]

UpdateTop(m, a) == [m EXCEPT !.stack[Len(m.stack)] = a]

\* The environment evaluate_expr was handed, for a context.
CurEnv(m, ctx) == m.envs[ctx.calls + 1]

SetCurEnv(m, ctx, e) == [m EXCEPT !.envs[ctx.calls + 1] = e]

Child(ctx) == [ctx EXCEPT !.depth = @ + 1]

\* evaluate_expr(expr, env) is called.
Enter(m, expr, ctx) ==
    [Logged(m, [k |-> "eval", frame |-> ctx.frame, depth |-> ctx.depth, e |-> expr,
                vars |-> CurEnv(m, ctx).variables, funs |-> CurEnv(m, ctx).functions,
                outlen |-> Len(m.io.out)])
        EXCEPT !.stack = Append(@, [expr |-> expr, ctx |-> ctx, i |-> 0, acc |-> <<>>,
                                    phase |-> "args", fenv |-> Environment_new, callee |-> 0]),
               !.ret = R_None]

\* The innermost activation returns Ok(value).
ReturnValue(m, value) ==
    LET a == Top(m)
    IN  [Pop(Logged(m, [k |-> "done", frame |-> a.ctx.frame, depth |-> a.ctx.depth, e |-> a.expr,
                        value |-> value, vars |-> CurEnv(m, a.ctx).variables,
                        funs |-> CurEnv(m, a.ctx).functions, outlen |-> Len(m.io.out)]))
            EXCEPT !.ret = R_Ok(value)]

\* The innermost activation creates an Err and returns it.
Raise(m, msg) ==
    LET a == Top(m)
    IN  [Pop(Logged(m, [k |-> "err", frame |-> a.ctx.frame, depth |-> a.ctx.depth, msg |-> msg,
                        vars |-> CurEnv(m, a.ctx).variables,
                        funs |-> CurEnv(m, a.ctx).functions, outlen |-> Len(m.io.out)]))
            EXCEPT !.ret = R_Err(msg)]

\* An activation that recovers from the failure it was handed and yields Null.
Unwind_recover(m) ==
    LET a == Top(m)
    IN  [Pop(m) EXCEPT !.envs = IF a.expr.kind = "FunctionCall" /\ a.phase = "body"
                                THEN SubSeq(@, 1, Len(@) - 1) ELSE @,
                       !.ret = R_Ok(VNull)]

\* A `?` of the innermost activation returns the failure it was handed; the
\* func_env of a running body is dropped with it.
Unwind(m) ==
    LET a == Top(m)
    IN  [Pop(m) EXCEPT !.envs = IF a.expr.kind = "FunctionCall" /\ a.phase = "body"
                                THEN SubSeq(@, 1, Len(@) - 1) ELSE @]

\* The context of the body of the call activation a.
Inner(a) == [frame |-> a.callee, calls |-> a.ctx.calls + 1, depth |-> a.ctx.depth + 1]

\* The body loop of a call reaches its i-th statement.
EnterStmt(m, a, body, i) ==
    Enter(Logged(m, [k |-> "stmt", frame |-> a.callee, i |-> i, e |-> body[i]]), body[i], Inner(a))

\* Ok(result) of the FunctionCall arm: func_env is dropped.
ExitCall(m, value) ==
    LET a == Top(m)
        m1 == Logged(m, [k |-> "exit", frame |-> a.callee, caller |-> a.ctx.frame,
                         depth |-> a.ctx.depth, value |-> value,
                         vars |-> m.envs[Len(m.envs)].variables,
                         callervars |-> CurEnv(m, a.ctx).variables])
    IN  ReturnValue([m1 EXCEPT !.envs = SubSeq(@, 1, Len(@) - 1)], value)

\* The arguments are bound: the body loop starts in func_env.
StartBody(m) ==
    LET a == Top(m)
        f == CurEnv(m, a.ctx).functions[a.expr.name]
        id == m.io.frames + 1
        b == [a EXCEPT !.phase = "body", !.i = 0, !.callee = id]
        m1 == Logged([UpdateTop(m, b) EXCEPT !.envs = Append(@, a.fenv), !.io.frames = id],
                     [k |-> "enter", frame |-> id, caller |-> a.ctx.frame,
                      depth |-> a.ctx.depth, fn |-> a.expr.name,
                      vars |-> a.fenv.variables, funs |-> a.fenv.functions,
                      callervars |-> CurEnv(m, a.ctx).variables])
    IN  IF a.ctx.calls >= MaxCallDepth
        THEN [Pop(Logged(m, [k |-> "overflow", frame |-> a.ctx.frame, fn |-> a.expr.name]))
                EXCEPT !.ret = R_Abort]
        ELSE IF f.body = <<>> THEN ExitCall(m1, VNull)
        ELSE EnterStmt(m1, b, f.body, 1)

\* The FunctionCall arm, up to its first argument.
BeginCall(m) ==
    LET a == Top(m)
        e == CurEnv(m, a.ctx)
        name == a.expr.name
        args == a.expr.args
    IN  IF ~has_function(e, name)
        THEN Raise(m, <<Lit("Undefined function: "), Txt(name)>>)
        ELSE IF ~ArityMatches(args, e.functions[name].params)
        THEN Raise(m, <<Lit("Function '"), Txt(name), Lit("' expects "),
                        Txt(IntToChars(Len(e.functions[name].params))),
                        Lit(" arguments, got "), Txt(IntToChars(Len(args)))>>)
        ELSE LET m1 == UpdateTop(m, [a EXCEPT !.fenv = NewCallEnv(e)])
             IN  IF args = <<>> THEN StartBody(m1) ELSE Enter(m1, args[1], Child(a.ctx))

\* An activation starts: the arm of its expression, up to its first
\* sub-evaluation.
Begin(m) ==
    LET a == Top(m)
        expr == a.expr
        e == CurEnv(m, a.ctx)
        sub == Child(a.ctx)
    IN  CASE expr.kind = "IntLiteral" -> ReturnValue(m, VInt(expr.n))
          [] expr.kind = "FloatLiteral" -> ReturnValue(m, VFloat(expr.num, expr.scale))
          [] expr.kind = "StringLiteral" -> ReturnValue(m, VString(expr.s))
          [] expr.kind = "BoolLiteral" -> ReturnValue(m, VBool(expr.b))
          [] expr.kind = "NullLiteral" -> ReturnValue(m, VNull)
          [] expr.kind = "List" ->
                IF expr.items = <<>> THEN ReturnValue(m, VList(<<>>))
                ELSE Enter(m, expr.items[1], sub)
          [] expr.kind = "Map" ->
                IF expr.entries = <<>> THEN ReturnValue(m, VMap(<<>>))
                ELSE Enter(m, expr.entries[1][1], sub)
          [] expr.kind = "VarDeclaration" -> Enter(m, expr.value, sub)
          [] expr.kind = "Identifier" ->
                IF has(e, expr.name) THEN ReturnValue(m, e.variables[expr.name])
                ELSE Raise(m, <<Lit("Undefined variable: "), Txt(expr.name)>>)
          [] expr.kind = "Output" ->
                IF expr.args = <<>> THEN ReturnValue(Printed(m, output_text(<<>>, 1)), VNull)
                ELSE Enter(m, expr.args[1], sub)
          [] expr.kind = "OutputFormatted" -> Enter(m, expr.expr, sub)
          [] expr.kind = "Return" ->
                IF ReturnOperands(expr.values) = <<>> THEN ReturnValue(m, VNull)
                ELSE Enter(m, ReturnOperands(expr.values)[1], sub)
          [] expr.kind = "FunctionCall" -> BeginCall(m)
          [] expr.kind = "TypeConversion" -> Enter(m, expr.expr, sub)
          [] OTHER -> Raise(m, <<Lit("Unsupported expression: "), Dbg(expr)>>)

\* A sub-evaluation returned Ok(value) to the innermost activation: the rest
\* of its arm, up to its next sub-evaluation.
Resume(m) ==
    LET a == Top(m)
        expr == a.expr
        v == m.ret.value
        n == a.i + 1
        b == [a EXCEPT !.i = n, !.acc = Append(@, v)]
        m1 == UpdateTop(m, b)
        e == CurEnv(m, a.ctx)
        sub == Child(a.ctx)
    IN  CASE expr.kind = "List" ->
                IF n < Len(expr.items) THEN Enter(m1, expr.items[n + 1], sub)
                ELSE ReturnValue(m1, VList(b.acc))
          [] expr.kind = "Map" ->
                IF n < 2 * Len(expr.entries)
                THEN Enter(m1, IF n % 2 = 1 THEN expr.entries[(n + 1) \div 2][2]
                               ELSE expr.entries[(n \div 2) + 1][1], sub)
                ELSE ReturnValue(m1, VMap([j \in 1..Len(expr.entries) |->
                                              <<b.acc[2 * j - 1], b.acc[2 * j]>>]))
          [] expr.kind = "VarDeclaration" ->
                ReturnValue(SetCurEnv(m1, a.ctx, define(e, expr.name, v)), v)
          [] expr.kind = "Output" ->
                IF n < Len(expr.args) THEN Enter(m1, expr.args[n + 1], sub)
                ELSE ReturnValue(Printed(m1, output_text(b.acc, 1)), VNull)
          [] expr.kind = "OutputFormatted" ->
                IF v.t = "String"
                THEN ReturnValue(Printed(m1, strip_braces(v.s) \o <<"\n">>), VNull)
                ELSE Raise(m1, <<Lit("outputf requires a string argument")>>)
          [] expr.kind = "Return" ->
                IF n < Len(ReturnOperands(expr.values))
                THEN Enter(m1, ReturnOperands(expr.values)[n + 1], sub)
                ELSE ReturnValue(m1, b.acc[1])
          [] expr.kind = "TypeConversion" ->
                IF convert(v, expr.target_type).ok
                THEN ReturnValue(m1, convert(v, expr.target_type).value)
                ELSE Raise(m1, convert(v, expr.target_type).err)
          [] expr.kind = "FunctionCall" /\ a.phase = "args" ->
                \* func_env.define(params[i].0.clone(), arg_value)
                LET params == e.functions[expr.name].params
                    m2 == UpdateTop(m, [a EXCEPT !.i = n,
                                                 !.fenv = define(@, params[n][1], v)])
                IN  IF n < Len(expr.args) THEN Enter(m2, expr.args[n + 1], sub)
                    ELSE StartBody(m2)
          [] expr.kind = "FunctionCall" /\ a.phase = "body" ->
                \* result = ...; if matches!(expr, Expr::Return(_)) { break; }
                LET body == e.functions[expr.name].body
                    c == [a EXCEPT !.i = n]
                IN  IF StopsBody(body[n]) \/ n >= Len(body) THEN ExitCall(UpdateTop(m, c), v)
                    ELSE EnterStmt(UpdateTop(m, c), c, body, n + 1)

\* One step of the recursion of evaluate_expr.
Step(m) ==
    IF m.ret.res = "None" THEN Begin(m)
    ELSE IF Failed(m.ret) THEN Unwind(m)
    ELSE Resume(m)

\* evaluate_expr, from its call to its return.
RECURSIVE Run(_)
Run(m) == IF m.stack = <<>> THEN m ELSE Run(Step(m))

\* evaluate_expr(expr, env) called with stdout and the history as they are:
\* [ret, env, io] when it returns.
evaluate_expr(expr, e, io, ctx) ==
    With(Run(Enter([stack |-> <<>>, envs |-> <<e>>, io |-> io, ret |-> R_None], expr, ctx)),
         LAMBDA m : [ret |-> m.ret, env |-> m.envs[1], io |-> m.io])

------------------------------------------------------------------------------
(* interpreter.rs: interpret, one action per step of its body. *)

MainName == <<"m", "a", "i", "n">>

\* for (name, func_def) in &program.functions { env.define_function(...) }
\* (a fold of inserts under distinct keys: the order of the HashMap's
\* iteration does not change the table it builds).
RegisterFunctions(prog, e) ==
    [e EXCEPT !.functions =
        [name \in DOMAIN e.functions \cup DOMAIN prog.functions |->
            IF name \in DOMAIN prog.functions
            THEN VFunction(name, prog.functions[name].params,
                           prog.functions[name].return_types, prog.functions[name].body)
            ELSE e.functions[name]]]

\* An interpret that always runs the top-level statements.
EntryIsMain_never(e) == FALSE

\* if let Some(Value::Function { body, .. }) = env.get_function("main").cloned()
EntryIsMain(e) == has_function(e, MainName)

TopCtx == [frame |-> 0, calls |-> 0, depth |-> 0]

\* An entry loop that does not move on to its next statement.
RunEntryStmt_again(stmts, entry) ==
    LET i == next_stmt
        io == [out |-> out, frames |-> frames,
               log |-> Append(log, [k |-> "stmt", frame |-> 0, i |-> i, e |-> stmts[i],
                                    entry |-> entry])]
    IN  \E r \in {evaluate_expr(stmts[i], env, io, TopCtx)} :
        /\ env' = r.env
        /\ out' = r.io.out
        /\ log' = r.io.log
        /\ frames' = r.io.frames
        /\ IF Failed(r.ret)
           THEN /\ pc' = (IF r.ret.res = "Err" THEN "err" ELSE "abort")
                /\ result' = r.ret.err
                /\ next_stmt' = next_stmt
           ELSE /\ pc' = "run"
                /\ result' = result
                /\ next_stmt' = next_stmt
        /\ UNCHANGED <<program, pipeline_vars, call_vars>>

\* evaluate_expr(&expr, &mut env)? of an entry loop, on its i-th statement.
RunEntryStmt(stmts, entry) ==
    LET i == next_stmt
        io == [out |-> out, frames |-> frames,
               log |-> Append(log, [k |-> "stmt", frame |-> 0, i |-> i, e |-> stmts[i],
                                    entry |-> entry])]
    IN  \E r \in {evaluate_expr(stmts[i], env, io, TopCtx)} :
        /\ env' = r.env
        /\ out' = r.io.out
        /\ log' = r.io.log
        /\ frames' = r.io.frames
        /\ IF Failed(r.ret)
           THEN /\ pc' = (IF r.ret.res = "Err" THEN "err" ELSE "abort")
                /\ result' = r.ret.err
                /\ next_stmt' = next_stmt
           ELSE /\ pc' = "run"
                /\ result' = result
                /\ next_stmt' = next_stmt + 1
        /\ UNCHANGED <<program, pipeline_vars, call_vars>>

Register ==
    /\ pc = "start"
    /\ env' = RegisterFunctions(program, env)
    /\ pc' = "run"
    /\ UNCHANGED <<program, next_stmt, out, log, frames, result, pipeline_vars, call_vars>>

RunMainStmt ==
    /\ pc = "run"
    /\ EntryIsMain(env)
    /\ next_stmt <= Len(env.functions[MainName].body)
    /\ RunEntryStmt(env.functions[MainName].body, "main")

RunBlockStmt ==
    /\ pc = "run"
    /\ ~EntryIsMain(env)
    /\ next_stmt <= Len(program.main_block)
    /\ RunEntryStmt(program.main_block, "main_block")

\* Ok(()) once the entry loop has run out of statements.
ReturnOk ==
    /\ pc = "run"
    /\ next_stmt > Len(IF EntryIsMain(env) THEN env.functions[MainName].body
                       ELSE program.main_block)
    /\ pc' = "ok"
    /\ result' = <<>>
    /\ UNCHANGED <<program, env, next_stmt, out, log, frames, pipeline_vars, call_vars>>

------------------------------------------------------------------------------
(* The programs interpret is given: every main_block of at most MaxStmts    *)
(* statements of TopPool, with each of the function tables.  All of them    *)
(* are trees the parser builds (literals, conversions, identifiers,         *)
(* declarations, calls, output, outputf, return).                           *)

nx == <<"x">>
ny == <<"y">>
nz == <<"z">>
na == <<"a">>
nb == <<"b">>
nf == <<"f">>
ng == <<"g">>
nh == <<"h">>
nk == <<"k">>
nr == <<"r">>

\* fun f(a: int): int { b = a  output(b)  return b, c = 1  output("late")  x = 9 }
Fun_f == FunctionDef(nf, <<<<na, TInt>>>>, <<TInt>>,
    << VarDeclaration(nb, Identifier(na)),
       Output(<<Identifier(nb)>>),
       Return(<<Identifier(nb), VarDeclaration(<<"c">>, IntLiteral(1))>>),
       Output(<<StringLiteral(<<"l", "a", "t", "e">>)>>),
       VarDeclaration(nx, IntLiteral(9)) >>)

\* fun g(): int { return x }            (x is a variable of the caller only)
Fun_g == FunctionDef(ng, <<>>, <<TInt>>, << Return(<<Identifier(nx)>>) >>)

\* fun h(a: int, b: bool) { x = a  output(return 1)  y = b }
Fun_h == FunctionDef(nh, <<<<na, TInt>>, <<nb, TBool>>>>, <<>>,
    << VarDeclaration(nx, Identifier(na)),
       Output(<<Return(<<IntLiteral(1)>>)>>),
       VarDeclaration(ny, Identifier(nb)) >>)

\* fun k() { y = f(5)  output(y)  g()  output("k") }
Fun_k == FunctionDef(nk, <<>>, <<>>,
    << VarDeclaration(ny, FunctionCall(nf, <<IntLiteral(5)>>)),
       Output(<<Identifier(ny)>>),
       FunctionCall(ng, <<>>),
       Output(<<StringLiteral(<<"k">>)>>) >>)

\* fun r() { output(0)  r() }
Fun_r == FunctionDef(nr, <<>>, <<>>,
    << Output(<<IntLiteral(0)>>), FunctionCall(nr, <<>>) >>)

\* fun main() { x = 3  f(x)  return  output(x, 4)  h(x, true)  output("end") }
Fun_main1 == FunctionDef(MainName, <<>>, <<>>,
    << VarDeclaration(nx, IntLiteral(3)),
       FunctionCall(nf, <<Identifier(nx)>>),
       Return(<<>>),
       Output(<<Identifier(nx), IntLiteral(4)>>),
       FunctionCall(nh, <<Identifier(nx), BoolLiteral(TRUE)>>),
       Output(<<StringLiteral(<<"e", "n", "d">>)>>) >>)

\* fun main(a: int) { output(1.5)  r() }
Fun_main2 == FunctionDef(MainName, <<<<na, TInt>>>>, <<>>,
    << Output(<<FloatLiteral(15, 1)>>), FunctionCall(nr, <<>>) >>)

Table(defs) == [name \in {d.name : d \in defs} |-> CHOOSE d \in defs : d.name = name]

FunctionTables ==
    { Table({}),
      Table({Fun_f, Fun_g, Fun_h, Fun_k}),
      Table({Fun_f, Fun_h, Fun_main1}),
      Table({Fun_r, Fun_main2}) }

TopPool ==
    { \* x = 1
      VarDeclaration(nx, IntLiteral(1)),
      \* x
      Identifier(nx),
      \* output(x, x = 2, x)
      Output(<<Identifier(nx), VarDeclaration(nx, IntLiteral(2)), Identifier(nx)>>),
      \* output(y = 3, output(4, "hi"), z)
      Output(<<VarDeclaration(ny, IntLiteral(3)),
               Output(<<IntLiteral(4), StringLiteral(<<"h", "i">>)>>),
               Identifier(nz)>>),
      \* f(7)
      FunctionCall(nf, <<IntLiteral(7)>>),
      \* f(y = 3, output(5))
      FunctionCall(nf, <<VarDeclaration(ny, IntLiteral(3)), Output(<<IntLiteral(5)>>)>>),
      \* h(y = 3)
      FunctionCall(nh, <<VarDeclaration(ny, IntLiteral(3))>>),
      \* y = g()
      VarDeclaration(ny, FunctionCall(ng, <<>>)),
      \* h(1, x = true)
      FunctionCall(nh, <<IntLiteral(1), VarDeclaration(nx, BoolLiteral(TRUE))>>),
      \* k()
      FunctionCall(nk, <<>>),
      \* return 1, z, output(9)
      Return(<<IntLiteral(1), Identifier(nz), Output(<<IntLiteral(9)>>)>>),
      \* x = output(x, x = 2, x, z)
      VarDeclaration(nx, Output(<<Identifier(nx), VarDeclaration(nx, IntLiteral(2)),
                                  Identifier(nx), Identifier(nz)>>)),
      \* y = int("7")
      VarDeclaration(ny, TypeConversion(StringLiteral(<<"7">>), TInt)),
      \* outputf(int(7))
      OutputFormatted(TypeConversion(IntLiteral(7), TInt)),
      \* outputf("{a}")
      OutputFormatted(StringLiteral(<<"{", "a", "}">>)) }

RECURSIVE SeqsUpTo(_, _)
SeqsUpTo(S, n) ==
    IF n = 0 THEN {<<>>}
    ELSE LET shorter == SeqsUpTo(S, n - 1)
         IN  shorter \cup {Append(q, x) : q \in shorter, x \in S}

Programs == {Program(t, b) : t \in FunctionTables, b \in SeqsUpTo(TopPool, MaxStmts)}

\* No Parser has been made.
NoParser ==
    [tokens |-> <<>>, current |-> 0, stack |-> <<>>,
     ret |-> [res |-> "None", value |-> <<>>, err |-> <<>>]]

------------------------------------------------------------------------------
(* interpret(program) called on a program: the state after                  *)
(* `let mut env = Environment::new();`.                                     *)

InitInterp ==
    /\ program \in Programs
    /\ env = Environment_new
    /\ pc = "start"
    /\ next_stmt = 1
    /\ out = <<>>
    /\ log = <<>>
    /\ frames = 0
    /\ result = <<>>
    /\ source = <<>>
    /\ stage = "off"
    /\ tokens = <<>>
    /\ ast = program
    /\ type_errors = <<>>
    /\ calls = <<>>
    /\ outcome = [ok |-> TRUE, err |-> <<>>]
    /\ given = [fn |-> "none", args |-> <<>>]
    /\ returned = <<>>
    /\ parser = NoParser

NextInterp == Register \/ RunMainStmt \/ RunBlockStmt \/ ReturnOk

SpecInterp == InitInterp /\ [][NextInterp]_all_vars

\* A step of interpret, told by what it does to pc and next_stmt: Register
\* and ReturnOk change pc, and a statement of the entry loop either moves
\* next_stmt on or, failing, changes pc.  Such a step is possible exactly
\* while interpret has not returned.
InterpretStep ==
    /\ pc \in {"start", "run"}
    /\ pc' \in {"run", "ok", "err", "abort"}
    /\ next_stmt' \in {next_stmt, next_stmt + 1}

\* interpret is not held up for ever: it runs on its thread to its return.
SpecInterpLive ==
    InitInterp /\ [][NextInterp]_all_vars /\ WF_<<pc, next_stmt>>(InterpretStep)

------------------------------------------------------------------------------
(* interpret called on programs of one statement y = T(e): every operand e  *)
(* of ConvertOperands under every target type T of ConvertTargets.          *)

ConvertOperands ==
    { IntLiteral(42), IntLiteral(0), IntLiteral(-3),
      FloatLiteral(25, 1), FloatLiteral(-15, 1), FloatLiteral(2, 0),
      StringLiteral(<<"4", "2">>), StringLiteral(<<"-", "7">>), StringLiteral(<<"+", "7">>),
      StringLiteral(<<"a", "b", "c">>), StringLiteral(<<>>), StringLiteral(<<"4", " ", "2">>),
      StringLiteral(<<"1", ".", "5">>), StringLiteral(<<"1", ".", "5", ".">>),
      StringLiteral(<<"t", "r", "u", "e">>), StringLiteral(<<"F", "a", "l", "s", "e">>),
      StringLiteral(<<"-">>),
      BoolLiteral(TRUE), BoolLiteral(FALSE), NullLiteral,
      List(<<>>), List(<<IntLiteral(1)>>),
      Map(<<>>), Map(<<<<StringLiteral(<<"k">>), IntLiteral(1)>>>>) }

ConvertTargets == {TInt, TFloat, TString, TBool, TNull, TAny, TList(TInt), TMap(TString, TInt)}

ConvertPrograms ==
    {Program(EmptyMap, <<VarDeclaration(ny, TypeConversion(e, t))>>) :
        e \in ConvertOperands, t \in ConvertTargets}

InitConvert ==
    /\ program \in ConvertPrograms
    /\ env = Environment_new
    /\ pc = "start"
    /\ next_stmt = 1
    /\ out = <<>>
    /\ log = <<>>
    /\ frames = 0
    /\ result = <<>>
    /\ source = <<>>
    /\ stage = "off"
    /\ tokens = <<>>
    /\ ast = program
    /\ type_errors = <<>>
    /\ calls = <<>>
    /\ outcome = [ok |-> TRUE, err |-> <<>>]
    /\ given = [fn |-> "none", args |-> <<>>]
    /\ returned = <<>>
    /\ parser = NoParser

NextConvert == Register \/ RunBlockStmt \/ ReturnOk

SpecConvert == InitConvert /\ [][NextConvert]_all_vars

------------------------------------------------------------------------------
(* lexer.rs.  A source is a sequence of characters; positions count from 0  *)
(* as the byte offsets of the spans do (the characters of the model are     *)
(* ASCII).  The lexer logos derives takes, at each position, the longest    *)
(* match of the patterns, a #[token] before a #[regex] of the same length.  *)

\* The #[token("...")] patterns of enum Token.
FixedTokens ==
    << <<<<"f", "u", "n">>, "Fun">>,
       <<<<"i", "f">>, "If">>,
       <<<<"e", "l", "s", "e", "i", "f">>, "ElseIf">>,
       <<<<"e", "l", "s", "e">>, "Else">>,
       <<<<"l", "o", "o", "p">>, "Loop">>,
       <<<<"t", "i", "l", "l">>, "Till">>,
       <<<<"c", "o", "n", "t", "i", "n", "u", "e">>, "Continue">>,
       <<<<"b", "r", "e", "a", "k">>, "Break">>,
       <<<<"r", "e", "t", "u", "r", "n">>, "Return">>,
       <<<<"i", "s">>, "Is">>,
       <<<<"n", "o", "t">>, "NotKeyword">>,
       <<<<"t", "r", "u", "e">>, "True">>,
       <<<<"f", "a", "l", "s", "e">>, "False">>,
       <<<<"n", "u", "l", "l">>, "Null">>,
       <<<<"o", "u", "t", "p", "u", "t">>, "Output">>,
       <<<<"o", "u", "t", "p", "u", "t", "f">>, "OutputF">>,
       <<<<"o", "u", "t", "p", "u", "t", "&">>, "OutputAddr">>,
       <<<<"i", "n", "p", "u", "t">>, "Input">>,
       <<<<"i", "n", "p", "u", "t", "f">>, "InputF">>,
       <<<<"i", "n", "t">>, "IntType">>,
       <<<<"f", "l", "o", "a", "t">>, "FloatType">>,
       <<<<"s", "t", "r", "i", "n", "g">>, "StringType">>,
       <<<<"b", "o", "o", "l">>, "BoolType">>,
       <<<<"+">>, "Plus">>,
       <<<<"-">>, "Minus">>,
       <<<<"*">>, "Star">>,
       <<<<"/">>, "Slash">>,
       <<<<"%">>, "Percent">>,
       <<<<"=">>, "Equals">>,
       <<<<"=", "=">>, "DoubleEquals">>,
       <<<<"!", "=">>, "NotEquals">>,
       <<<<"<">>, "LessThan">>,
       <<<<"<", "=">>, "LessThanEquals">>,
       <<<<">">>, "GreaterThan">>,
       <<<<">", "=">>, "GreaterThanEquals">>,
       <<<<"&", "&">>, "And">>,
       <<<<"|", "|">>, "Or">>,
       <<<<"!">>, "Not">>,
       <<<<".">>, "Dot">>,
       <<<<".", ".", ".">>, "Ellipsis">>,
       <<<<"(">>, "LParen">>,
       <<<<")">>, "RParen">>,
       <<<<"{">>, "LBrace">>,
       <<<<"}">>, "RBrace">>,
       <<<<"[">>, "LBracket">>,
       <<<<"]">>, "RBracket">>,
       <<<<":">>, "Colon">>,
       <<<<",">>, "Comma">>,
       <<<<";">>, "Semicolon">> >>

LowerCaseSet == {LowerCase[i] : i \in 1..26}
UpperCaseSet == {UpperCase[i] : i \in 1..26}
DigitSet == {Digits[i] : i \in 1..10}
IdentStart == LowerCaseSet \cup UpperCaseSet \cup {"_"}
IdentPart == IdentStart \cup DigitSet
Blank == {" ", "\t", "\n", "\r"}

\* The character at offset i, or "" past the end.
At(s, i) == IF i < Len(s) THEN s[i + 1] ELSE ""

\* The characters of the span start..end.
Slice(s, start, end) == SubSeq(s, start + 1, end)

\* How many characters from offset i on satisfy Class(c): X* of a regex.
RunLen(s, i, Class(_)) ==
    IF i >= Len(s) THEN 0
    ELSE CHOOSE n \in 0..(Len(s) - i) :
            /\ \A j \in i..(i + n - 1) : Class(At(s, j))
            /\ i + n = Len(s) \/ ~Class(At(s, i + n))

\* -?[0-9]+
IntLen(s, i) ==
    LET sign == IF At(s, i) = "-" THEN 1 ELSE 0
        digits == RunLen(s, i + sign, LAMBDA c : c \in DigitSet)
    IN  IF digits > 0 THEN sign + digits ELSE 0

\* -?[0-9]+\.[0-9]+
FloatLen(s, i) ==
    LET whole == IntLen(s, i)
        frac == RunLen(s, i + whole + 1, LAMBDA c : c \in DigitSet)
    IN  IF whole > 0 /\ At(s, i + whole) = "." /\ frac > 0 THEN whole + 1 + frac ELSE 0

\* "([^"\\]|\\.)*" : the offset after the closing quote of the string that
\* opens at i, scanning from j; 0 if it is not closed.
RECURSIVE StringEnd(_, _)
StringEnd(s, j) ==
    IF j >= Len(s) THEN 0
    ELSE IF At(s, j) = "\"" THEN j + 1
    ELSE IF At(s, j) = "\\"
         THEN (IF j + 1 < Len(s) /\ At(s, j + 1) # "\n" THEN StringEnd(s, j + 2) ELSE 0)
    ELSE StringEnd(s, j + 1)

StringLen(s, i) ==
    IF At(s, i) = "\"" /\ StringEnd(s, i + 1) > 0 THEN StringEnd(s, i + 1) - i ELSE 0

\* [a-zA-Z_][a-zA-Z0-9_]*
IdentifierLen(s, i) ==
    IF At(s, i) \in IdentStart THEN 1 + RunLen(s, i + 1, LAMBDA c : c \in IdentPart) ELSE 0

\* #[^\n]*
CommentLen(s, i) ==
    IF At(s, i) = "#" THEN 1 + RunLen(s, i + 1, LAMBDA c : c # "\n") ELSE 0

\* ###[^#]*###
MultilineCommentLen(s, i) ==
    LET hashes(j) == At(s, j) = "#" /\ At(s, j + 1) = "#" /\ At(s, j + 2) = "#"
        inner == RunLen(s, i + 3, LAMBDA c : c # "#")
    IN  IF hashes(i) /\ i + 3 <= Len(s) /\ hashes(i + 3 + inner) THEN 6 + inner ELSE 0

\* [ \t\n\r]+
WhitespaceLen(s, i) == RunLen(s, i, LAMBDA c : c \in Blank)

\* The #[token] patterns that match at offset i, as <<length, name>>.
FixedMatches(s, i) ==
    {<<Len(FixedTokens[t][1]), FixedTokens[t][2]>> : t \in
        {t \in DOMAIN FixedTokens :
            /\ i + Len(FixedTokens[t][1]) <= Len(s)
            /\ Slice(s, i, i + Len(FixedTokens[t][1])) = FixedTokens[t][1]}}

\* Every pattern that matches at offset i, as <<length, rank, name>>: of
\* two matches of one length the one of the higher rank is taken.
Matches(s, i) ==
    {m \in {<<IntLen(s, i), 1, "IntLiteral">>, <<FloatLen(s, i), 1, "FloatLiteral">>,
            <<StringLen(s, i), 1, "StringLiteral">>, <<IdentifierLen(s, i), 1, "Identifier">>,
            <<CommentLen(s, i), 1, "Comment">>,
            <<MultilineCommentLen(s, i), 2, "MultilineComment">>,
            <<WhitespaceLen(s, i), 1, "Whitespace">>} : m[1] > 0}
    \cup {<<f[1], 3, f[2]>> : f \in FixedMatches(s, i)}

\* The match taken, of the matches M at one offset.
BestMatch(M) == CHOOSE m \in M : \A o \in M : o[1] < m[1] \/ (o[1] = m[1] /\ o[2] <= m[2])

Skipped == {"Comment", "MultilineComment", "Whitespace"}

\* Callbacks that keep the quotes of a string literal.
TokenOf_quoted(name, slice) ==
    CASE name = "IntLiteral" -> [tok |-> name, n |-> ParseInt(slice).n]
      [] name = "FloatLiteral" ->
            [tok |-> name, num |-> ParseFloat(slice).num, scale |-> ParseFloat(slice).scale]
      [] name \in {"StringLiteral", "Identifier"} -> [tok |-> name, s |-> slice]
      [] OTHER -> [tok |-> name]

\* The Token of a match: the callbacks of the literal patterns.
TokenOf(name, slice) ==
    CASE name = "IntLiteral" -> [tok |-> name, n |-> ParseInt(slice).n]
      [] name = "FloatLiteral" ->
            [tok |-> name, num |-> ParseFloat(slice).num, scale |-> ParseFloat(slice).scale]
      [] name = "StringLiteral" -> [tok |-> name, s |-> SubSeq(slice, 2, Len(slice) - 1)]
      [] name = "Identifier" -> [tok |-> name, s |-> slice]
      [] OTHER -> [tok |-> name]

TokenWithSpan(token, start, end) == [token |-> token, span |-> <<start, end>>]

\* A get_line_info that counts columns from 0.
get_line_info_from_zero(src, pos) ==
    LET before == SubSeq(src, 1, pos)
        breaks == {j \in 1..Len(before) : before[j] = "\n"}
        last == IF breaks = {} THEN 0 ELSE CHOOSE j \in breaks : \A l \in breaks : l <= j
    IN  [line |-> 1 + Cardinality(breaks), column |-> Len(before) - last]

\* get_line_info(source, pos)
get_line_info(src, pos) ==
    LET before == SubSeq(src, 1, pos)
        breaks == {j \in 1..Len(before) : before[j] = "\n"}
        last == IF breaks = {} THEN 0 ELSE CHOOSE j \in breaks : \A l \in breaks : l <= j
    IN  [line |-> 1 + Cardinality(breaks), column |-> 1 + (Len(before) - last)]

LexicalError(src, start, end) ==
    <<Lit("Lexical error at line "), Txt(NatToChars(get_line_info(src, start).line)),
      Lit(", column "), Txt(NatToChars(get_line_info(src, start).column)),
      Lit(": invalid token '"), Txt(Slice(src, start, end)), Lit("'")>>

\* A loop that steps over a character no pattern matches.
LexStep_skip_invalid(src, l) ==
    IF l.pos >= Len(src) THEN [l EXCEPT !.res = "Ok"]
    ELSE With(Matches(src, l.pos), LAMBDA M :
            IF M = {}
            THEN [l EXCEPT !.pos = l.pos + 1]
            ELSE With(BestMatch(M), LAMBDA m :
                    IF m[3] \in Skipped THEN [l EXCEPT !.pos = l.pos + m[1]]
                    ELSE [l EXCEPT !.pos = l.pos + m[1],
                                   !.tokens = Append(@, TokenWithSpan(
                                       TokenOf(m[3], Slice(src, l.pos, l.pos + m[1])),
                                       l.pos, l.pos + m[1]))]))

\* One round of `while let Some(token) = lexer.next()`: a state of the loop
\* is [pos, tokens, res, err], res "more" until the loop is left.
LexStep(src, l) ==
    IF l.pos >= Len(src) THEN [l EXCEPT !.res = "Ok"]
    ELSE With(Matches(src, l.pos), LAMBDA M :
            IF M = {}
            THEN [l EXCEPT !.res = "Err", !.err = LexicalError(src, l.pos, l.pos + 1)]
            ELSE With(BestMatch(M), LAMBDA m :
                    IF m[3] \in Skipped THEN [l EXCEPT !.pos = l.pos + m[1]]
                    ELSE [l EXCEPT !.pos = l.pos + m[1],
                                   !.tokens = Append(@, TokenWithSpan(
                                       TokenOf(m[3], Slice(src, l.pos, l.pos + m[1])),
                                       l.pos, l.pos + m[1]))]))

RECURSIVE LexRun(_, _)
LexRun(src, l) == IF l.res # "more" THEN l ELSE LexRun(src, LexStep(src, l))

\* tokenize(source): [ok, tokens, err].
tokenize(src) ==
    With(LexRun(src, [pos |-> 0, tokens |-> <<>>, res |-> "more", err |-> <<>>]),
         LAMBDA l : [ok |-> l.res = "Ok", tokens |-> l.tokens, err |-> l.err])

------------------------------------------------------------------------------
(* parser.rs.  The recursive descent is an explicit machine: p.stack holds  *)
(* the running calls of parse_program, parse_function_declaration,          *)
(* parse_type and parse_expression, innermost last, each a frame with the   *)
(* point st it has reached and its locals; p.ret is what the call that      *)
(* returned last returned ("None" while a call starts).  A frame keeps in   *)
(* `from` where the cursor was when its call started.                       *)

P_None == [res |-> "None", value |-> <<>>, err |-> <<>>]

P_Ok(value) == [res |-> "Ok", value |-> value, err |-> <<>>]

P_Err(msg) == [res |-> "Err", value |-> <<>>, err |-> msg]

is_at_end(p) == p.current >= Len(p.tokens)

\* self.tokens.get(self.current).map(|t| &t.token)
current_token_type(p) ==
    IF p.current < Len(p.tokens)
    THEN [some |-> TRUE, token |-> p.tokens[p.current + 1].token]
    ELSE [some |-> FALSE]

\* The variant of the current token, "None" at the end.
Kind(p) == IF is_at_end(p) THEN "None" ELSE p.tokens[p.current + 1].token.tok

Current(p) == p.tokens[p.current + 1].token

\* An advance that leaves the cursor where it is.
advance_stay(p) == p

advance(p) == IF is_at_end(p) THEN p ELSE [p EXCEPT !.current = @ + 1]

\* check compares the variants only.
check(p, token_type) == ~is_at_end(p) /\ Kind(p) = token_type

NewFrame(fn) ==
    [fn |-> fn, st |-> "start", name |-> <<>>, params |-> <<>>, rets |-> <<>>,
     items |-> <<>>, aux |-> <<>>, functions |-> EmptyMap, from |-> 0]

PTop(p) == p.stack[Len(p.stack)]

\* The innermost call goes on at the point and with the locals of frame f.
PGoto(p, f) == [p EXCEPT !.stack[Len(p.stack)] = f, !.ret = P_None]

\* The innermost call, left in frame f, calls fn.
PCall(p, f, fn) ==
    [p EXCEPT !.stack = Append([@ EXCEPT ![Len(@)] = f],
                               [NewFrame(fn) EXCEPT !.from = p.current]),
              !.ret = P_None]

PReturn(p, value) == [p EXCEPT !.stack = SubSeq(@, 1, Len(@) - 1), !.ret = P_Ok(value)]

PFail(p, msg) == [p EXCEPT !.stack = SubSeq(@, 1, Len(@) - 1), !.ret = P_Err(msg)]

\* self.consume(token_type, error_message)? followed by Then.
Consume(p, token_type, error_message, Then(_)) ==
    IF check(p, token_type) THEN Then(advance(p))
    ELSE PFail(p, <<Lit(error_message), Lit(": expected "), Dbg([tok |-> token_type]),
                    Lit(", got "), Dbg(current_token_type(p))>>)

\* parse_program
ProgramStep(p, f) ==
    CASE f.st = "start" ->
            IF is_at_end(p) THEN PReturn(p, Program(f.functions, f.items))
            ELSE IF check(p, "Fun") THEN PCall(advance(p), [f EXCEPT !.st = "function"], "function")
            ELSE PCall(p, [f EXCEPT !.st = "expr"], "expr")
      [] f.st = "function" ->
            PGoto(p, [f EXCEPT !.st = "start",
                               !.functions = Insert(@, p.ret.value.name, p.ret.value)])
      [] f.st = "expr" ->
            PGoto(p, [f EXCEPT !.st = "start", !.items = Append(@, p.ret.value)])

\* parse_function_declaration
FunctionStep(p, f) ==
    CASE f.st = "start" ->
            IF Kind(p) # "Identifier"
            THEN PFail(p, <<Lit("Expected function name after 'fun' keyword")>>)
            ELSE Consume(advance(p), "LParen", "Expected '(' after function name",
                    LAMBDA q : PGoto(q, [f EXCEPT !.name = Current(p).s,
                                                  !.st = IF check(q, "RParen") THEN "close"
                                                         ELSE "param"]))
      [] f.st = "param" ->
            IF Kind(p) # "Identifier" THEN PFail(p, <<Lit("Expected parameter name")>>)
            ELSE Consume(advance(p), "Colon", "Expected ':' after parameter name",
                    LAMBDA q : PCall(q, [f EXCEPT !.aux = Current(p).s, !.st = "param_type"],
                                     "type"))
      [] f.st = "param_type" ->
            LET g == [f EXCEPT !.params = Append(@, <<f.aux, p.ret.value>>)]
            IN  IF check(p, "Comma") THEN PGoto(advance(p), [g EXCEPT !.st = "param"])
                ELSE PGoto(p, [g EXCEPT !.st = "close"])
      [] f.st = "close" ->
            Consume(p, "RParen", "Expected ')' after parameters",
                LAMBDA q : IF check(q, "Colon")
                           THEN PCall(advance(q), [f EXCEPT !.st = "return_type"], "type")
                           ELSE PGoto(q, [f EXCEPT !.st = "open"]))
      [] f.st = "return_type" ->
            LET g == [f EXCEPT !.rets = Append(@, p.ret.value)]
            IN  IF check(p, "Comma") THEN PCall(advance(p), g, "type")
                ELSE PGoto(p, [g EXCEPT !.st = "open"])
      [] f.st = "open" ->
            Consume(p, "LBrace", "Expected '{' before function body",
                LAMBDA q : PGoto(q, [f EXCEPT !.st = "body"]))
      [] f.st = "body" ->
            IF ~check(p, "RBrace") /\ ~is_at_end(p)
            THEN PCall(p, [f EXCEPT !.st = "statement"], "expr")
            ELSE Consume(p, "RBrace", "Expected '}' after function body",
                    LAMBDA q : PReturn(q, FunctionDef(f.name, f.params, f.rets, f.items)))
      [] f.st = "statement" ->
            PGoto(p, [f EXCEPT !.st = "body", !.items = Append(@, p.ret.value)])

SimpleTypes ==
    [t \in {"IntType", "FloatType", "StringType", "BoolType", "Null"} |->
        CASE t = "IntType" -> TInt [] t = "FloatType" -> TFloat [] t = "StringType" -> TString
          [] t = "BoolType" -> TBool [] t = "Null" -> TNull]

\* parse_type
TypeStep(p, f) ==
    CASE f.st = "start" ->
            IF Kind(p) \in DOMAIN SimpleTypes THEN PReturn(advance(p), SimpleTypes[Kind(p)])
            ELSE IF Kind(p) = "LBracket" THEN PCall(advance(p), [f EXCEPT !.st = "elem"], "type")
            ELSE PFail(p, <<Lit("Expected type, got "), Dbg(current_token_type(p))>>)
      [] f.st = "elem" ->
            IF check(p, "Colon")
            THEN PCall(advance(p), [f EXCEPT !.aux = p.ret.value, !.st = "value"], "type")
            ELSE Consume(p, "RBracket", "Expected ']' after list element type",
                    LAMBDA q : PReturn(q, TList(p.ret.value)))
      [] f.st = "value" ->
            Consume(p, "RBracket", "Expected ']' after map type",
                LAMBDA q : PReturn(q, TMap(f.aux, p.ret.value)))

\* The loop `parse_expression()?; push; if !match_token(Comma) { break }`
\* after one of its expressions is parsed.
ListStep(p, f, again, after) ==
    LET g == [f EXCEPT !.items = Append(@, p.ret.value)]
    IN  IF check(p, "Comma") THEN PCall(advance(p), [g EXCEPT !.st = again], "expr")
        ELSE PGoto(p, [g EXCEPT !.st = after])

\* parse_expression
ExprStep(p, f) ==
    CASE f.st = "start" ->
            CASE Kind(p) = "IntLiteral" -> PReturn(advance(p), IntLiteral(Current(p).n))
              [] Kind(p) = "FloatLiteral" ->
                    PReturn(advance(p), FloatLiteral(Current(p).num, Current(p).scale))
              [] Kind(p) = "StringLiteral" -> PReturn(advance(p), StringLiteral(Current(p).s))
              [] Kind(p) = "True" -> PReturn(advance(p), BoolLiteral(TRUE))
              [] Kind(p) = "False" -> PReturn(advance(p), BoolLiteral(FALSE))
              [] Kind(p) = "Null" -> PReturn(advance(p), NullLiteral)
              [] Kind(p) \in {"IntType", "FloatType", "StringType", "BoolType"} ->
                    Consume(advance(p), "LParen", "Expected '(' after type name",
                        LAMBDA q : PCall(q, [f EXCEPT !.aux = SimpleTypes[Kind(p)],
                                                      !.st = "conversion"], "expr"))
              [] Kind(p) = "Identifier" ->
                    LET q == advance(p)
                        g == [f EXCEPT !.name = Current(p).s]
                    IN  IF check(q, "Equals")
                        THEN PCall(advance(q), [g EXCEPT !.st = "declaration"], "expr")
                        ELSE IF check(q, "LParen")
                        THEN (IF check(advance(q), "RParen")
                              THEN PGoto(advance(q), [g EXCEPT !.st = "call_close"])
                              ELSE PCall(advance(q), [g EXCEPT !.st = "call_arg"], "expr"))
                        ELSE PReturn(q, Identifier(Current(p).s))
              [] Kind(p) = "Output" ->
                    Consume(advance(p), "LParen", "Expected '(' after 'output'",
                        LAMBDA q : IF check(q, "RParen")
                                   THEN PGoto(q, [f EXCEPT !.st = "output_close"])
                                   ELSE PCall(q, [f EXCEPT !.st = "output_arg"], "expr"))
              [] Kind(p) = "OutputF" ->
                    Consume(advance(p), "LParen", "Expected '(' after 'outputf'",
                        LAMBDA q : PCall(q, [f EXCEPT !.st = "format"], "expr"))
              [] Kind(p) = "Return" ->
                    LET q == advance(p)
                    IN  IF ~check(q, "RBrace") /\ ~is_at_end(q)
                        THEN PCall(q, [f EXCEPT !.st = "return_value"], "expr")
                        ELSE PReturn(q, Return(<<>>))
              [] OTHER -> PFail(p, <<Lit("Unexpected token: "), Dbg(current_token_type(p))>>)
      [] f.st = "conversion" ->
            Consume(p, "RParen", "Expected ')' after expression",
                LAMBDA q : PReturn(q, TypeConversion(p.ret.value, f.aux)))
      [] f.st = "declaration" -> PReturn(p, VarDeclaration(f.name, p.ret.value))
      [] f.st = "call_arg" -> ListStep(p, f, "call_arg", "call_close")
      [] f.st = "call_close" ->
            Consume(p, "RParen", "Expected ')' after function arguments",
                LAMBDA q : PReturn(q, FunctionCall(f.name, f.items)))
      [] f.st = "output_arg" -> ListStep(p, f, "output_arg", "output_close")
      [] f.st = "output_close" ->
            Consume(p, "RParen", "Expected ')' after output arguments",
                LAMBDA q : PReturn(q, Output(f.items)))
      [] f.st = "format" ->
            Consume(p, "RParen", "Expected ')' after outputf argument",
                LAMBDA q : PReturn(q, OutputFormatted(p.ret.value)))
      [] f.st = "return_value" -> ListStep(p, f, "return_value", "return_done")
      [] f.st = "return_done" -> PReturn(p, Return(f.items))

\* One step of the descent; a `?` hands an Err on to the caller.
PStep(p) ==
    LET f == PTop(p)
    IN  IF p.ret.res = "Err" THEN [p EXCEPT !.stack = SubSeq(@, 1, Len(@) - 1)]
        ELSE CASE f.fn = "program" -> ProgramStep(p, f)
               [] f.fn = "function" -> FunctionStep(p, f)
               [] f.fn = "type" -> TypeStep(p, f)
               [] f.fn = "expr" -> ExprStep(p, f)

RECURSIVE PRun(_)
PRun(p) == IF p.stack = <<>> THEN p ELSE PRun(PStep(p))

\* parse(tokens): [ok, program, err].
parse(toks) ==
    With(PRun([tokens |-> toks, current |-> 0, stack |-> <<NewFrame("program")>>,
               ret |-> P_None]),
         LAMBDA p : [ok |-> p.ret.res = "Ok", program |-> p.ret.value, err |-> p.ret.err])

------------------------------------------------------------------------------
(* type_checker.rs.  A TypeChecker is [variables, functions]; check_expr    *)
(* recurses into the values of Return and the arguments of Output and       *)
(* OutputFormatted only (infer_type does not recurse), as a machine whose   *)
(* stack holds the running calls of check_expr.                             *)

FunctionType(param_types, return_types) ==
    [param_types |-> param_types, return_types |-> return_types]

\* A types_compatible without its coercions.
types_compatible_identical(actual, expected) == actual = expected

\* types_compatible(actual, expected)
types_compatible(actual, expected) ==
    \/ actual = expected
    \/ expected = TAny
    \/ actual = TInt /\ expected = TFloat
    \/ actual = TFloat /\ expected = TInt

T_Ok(type) == [ok |-> TRUE, type |-> type, err |-> <<>>]

T_Err(msg) == [ok |-> FALSE, type |-> TNull, err |-> msg]

UndefinedVariableMessage(name) == <<Lit("Undefined variable: "), Txt(name)>>

\* infer_type(&self, expr)
infer_type(c, expr) ==
    CASE expr.kind = "IntLiteral" -> T_Ok(TInt)
      [] expr.kind = "FloatLiteral" -> T_Ok(TFloat)
      [] expr.kind = "StringLiteral" -> T_Ok(TString)
      [] expr.kind = "BoolLiteral" -> T_Ok(TBool)
      [] expr.kind = "NullLiteral" -> T_Ok(TNull)
      [] expr.kind = "Identifier" ->
            IF expr.name \in DOMAIN c.variables THEN T_Ok(c.variables[expr.name])
            ELSE T_Err(UndefinedVariableMessage(expr.name))
      [] expr.kind = "TypeConversion" -> T_Ok(expr.target_type)
      [] OTHER -> T_Err(<<Lit("Cannot infer type of complex expression: "), Dbg(expr)>>)

\* The first expression of exprs, in order, whose type infer_type does not
\* infer (0 if there is none): where a chain of `infer_type(..)?` returns.
FirstNotInferred(c, exprs) ==
    LET bad == {i \in DOMAIN exprs : ~infer_type(c, exprs[i]).ok}
    IN  IF bad = {} THEN 0 ELSE CHOOSE i \in bad : \A j \in bad : i <= j

\* The first position after the first, in order, whose inferred type is not
\* compatible with expected (0 if there is none).
FirstIncompatible(c, exprs, expected(_)) ==
    LET bad == {i \in DOMAIN exprs :
                   ~types_compatible(infer_type(c, exprs[i]).type, expected(i))}
    IN  IF bad = {} THEN 0 ELSE CHOOSE i \in bad : \A j \in bad : i <= j

\* A List arm that types a list by its first element and looks at no other.
CheckList_first_only(c, items) ==
    IF items = <<>> THEN T_Ok(TList(TAny))
    ELSE IF ~infer_type(c, items[1]).ok THEN infer_type(c, items[1])
    ELSE T_Ok(TList(infer_type(c, items[1]).type))

\* The List arm of check_expr.
CheckList(c, items) ==
    LET first_type == infer_type(c, items[1])
        rest == [i \in 1..(Len(items) - 1) |-> items[i + 1]]
        failing == FirstNotInferred(c, items)
        mixed == FirstIncompatible(c, rest, LAMBDA i : first_type.type)
    IN  IF items = <<>> THEN T_Ok(TList(TAny))
        ELSE IF ~first_type.ok THEN first_type
        ELSE IF mixed # 0 /\ (failing = 0 \/ mixed + 1 < failing)
        THEN T_Err(<<Lit("List contains mixed types: item "), Txt(NatToChars(mixed)),
                     Lit(" has type "), Dbg(infer_type(c, items[mixed + 1]).type),
                     Lit(", expected "), Dbg(first_type.type)>>)
        ELSE IF failing # 0 THEN infer_type(c, items[failing])
        ELSE T_Ok(TList(first_type.type))

\* The Map arm of check_expr: the keys and values in the order they are
\* inferred, key 0, value 0, key 1, value 1, ...
CheckMap(c, entries) ==
    LET flat == [i \in 1..(2 * Len(entries)) |-> entries[(i + 1) \div 2][2 - (i % 2)]]
        key_type == infer_type(c, flat[1])
        val_type == infer_type(c, flat[2])
        failing == FirstNotInferred(c, flat)
        rest == [i \in 1..(Len(flat) - 2) |-> flat[i + 2]]
        mixed == FirstIncompatible(c, rest,
                    LAMBDA i : IF i % 2 = 1 THEN key_type.type ELSE val_type.type)
        entry == (mixed + 1) \div 2
    IN  IF entries = <<>> THEN T_Ok(TMap(TAny, TAny))
        ELSE IF failing \in {1, 2} THEN infer_type(c, flat[failing])
        ELSE IF mixed # 0 /\ (failing = 0 \/ mixed + 2 < failing)
        THEN T_Err(<<Lit(IF mixed % 2 = 1 THEN "Map contains mixed key types: entry "
                         ELSE "Map contains mixed value types: entry "),
                     Txt(NatToChars(entry)),
                     Lit(IF mixed % 2 = 1 THEN " has key type " ELSE " has value type "),
                     Dbg(infer_type(c, flat[mixed + 2]).type), Lit(", expected "),
                     Dbg(IF mixed % 2 = 1 THEN key_type.type ELSE val_type.type)>>)
        ELSE IF failing # 0 THEN infer_type(c, flat[failing])
        ELSE T_Ok(TMap(key_type.type, val_type.type))

\* The FunctionCall arm of check_expr.
CheckCall(c, name, args) ==
    LET func_type == c.functions[name]
        failing == FirstNotInferred(c, args)
        wrong == FirstIncompatible(c, args, LAMBDA i : func_type.param_types[i][2])
    IN  IF name \notin DOMAIN c.functions THEN T_Err(<<Lit("Undefined function: "), Txt(name)>>)
        ELSE IF Len(args) # Len(func_type.param_types)
        THEN T_Err(<<Lit("Function '"), Txt(name), Lit("' expects "),
                     Txt(NatToChars(Len(func_type.param_types))), Lit(" arguments, got "),
                     Txt(NatToChars(Len(args)))>>)
        ELSE IF wrong # 0 /\ (failing = 0 \/ wrong < failing)
        THEN T_Err(<<Lit("Function '"), Txt(name), Lit("' argument "),
                     Txt(NatToChars(wrong - 1)), Lit(" has type "),
                     Dbg(infer_type(c, args[wrong]).type), Lit(", expected "),
                     Dbg(func_type.param_types[wrong][2])>>)
        ELSE IF failing # 0 THEN infer_type(c, args[failing])
        ELSE IF func_type.return_types = <<>> THEN T_Ok(TNull)
        ELSE T_Ok(func_type.return_types[1])

\* The pairs (from, to) the TypeConversion arm of check_expr accepts.
CheckedConversions ==
    {<<TInt, TFloat>>, <<TFloat, TInt>>, <<TInt, TString>>, <<TFloat, TString>>,
     <<TBool, TString>>, <<TString, TInt>>, <<TString, TFloat>>, <<TString, TBool>>}

CheckConversion(c, expr, target_type) ==
    LET expr_type == infer_type(c, expr)
    IN  IF ~expr_type.ok THEN expr_type
        ELSE IF <<expr_type.type, target_type>> \in CheckedConversions THEN T_Ok(target_type)
        ELSE T_Err(<<Lit("Cannot convert from "), Dbg(expr_type.type), Lit(" to "),
                     Dbg(target_type)>>)

\* A BinaryOp whose operands typed: the match on its operator.
BinaryType(operator, left_type, right_type) ==
    LET both(a, b) == left_type = a /\ right_type = b
        numeric == IF both(TInt, TInt) THEN <<TInt>>
                   ELSE IF both(TFloat, TFloat) \/ both(TInt, TFloat) \/ both(TFloat, TInt)
                   THEN <<TFloat>>
                   ELSE <<>>
        no(what) == T_Err(<<Lit(what), Dbg(left_type), Lit(" and "), Dbg(right_type)>>)
    IN  CASE operator = "Add" ->
                IF numeric # <<>> THEN T_Ok(numeric[1])
                ELSE IF both(TString, TString) THEN T_Ok(TString)
                ELSE no("Cannot add values of types ")
          [] operator \in {"Subtract", "Multiply", "Divide", "Modulo"} ->
                IF numeric # <<>> THEN T_Ok(numeric[1])
                ELSE no("Cannot perform arithmetic on types ")
          [] operator \in {"Equal", "NotEqual"} ->
                IF types_compatible(left_type, right_type) THEN T_Ok(TBool)
                ELSE no("Cannot compare values of incompatible types ")
          [] operator \in {"LessThan", "LessThanOrEqual", "GreaterThan", "GreaterThanOrEqual"} ->
                IF numeric # <<>> \/ both(TString, TString) THEN T_Ok(TBool)
                ELSE no("Cannot compare values of types ")
          [] operator \in {"And", "Or"} ->
                IF both(TBool, TBool) THEN T_Ok(TBool)
                ELSE no("Logical operators require boolean operands, got ")

\* The BinaryOp arm of check_expr.
CheckBinary(c, expr) ==
    LET left_type == infer_type(c, expr.left)
        right_type == infer_type(c, expr.right)
    IN  IF ~left_type.ok THEN left_type
        ELSE IF ~right_type.ok THEN right_type
        ELSE BinaryType(expr.operator, left_type.type, right_type.type)

\* The UnaryOp arm of check_expr.
CheckUnary(c, expr) ==
    LET expr_type == infer_type(c, expr.expr)
    IN  IF ~expr_type.ok THEN expr_type
        ELSE CASE expr.operator = "Negate" ->
                    IF expr_type.type \in {TInt, TFloat} THEN T_Ok(expr_type.type)
                    ELSE T_Err(<<Lit("Cannot negate value of type "), Dbg(expr_type.type)>>)
               [] expr.operator = "Not" ->
                    IF expr_type.type = TBool THEN T_Ok(TBool)
                    ELSE T_Err(<<Lit("Cannot apply logical NOT to type "),
                                 Dbg(expr_type.type)>>)
               [] expr.operator = "AddressOf" -> T_Ok(TString)

\* What the If and Loop arms do, in order: a condition to infer (with the
\* message of a condition that is not Bool) or a statement to check.
PlanCond(e, what) == [step |-> "cond", expr |-> e, what |-> what]

PlanStmts(exprs) == [i \in DOMAIN exprs |-> [step |-> "stmt", expr |-> exprs[i]]]

RECURSIVE ElseIfPlan(_)
ElseIfPlan(branches) ==
    IF branches = <<>> THEN <<>>
    ELSE <<PlanCond(branches[1][1], "Else-if condition must be boolean, got ")>>
         \o PlanStmts(branches[1][2]) \o ElseIfPlan(Tail(branches))

Plan(expr) ==
    IF expr.kind = "If"
    THEN <<PlanCond(expr.condition, "If condition must be boolean, got ")>>
         \o PlanStmts(expr.then_branch)
         \o ElseIfPlan(expr.else_if_branches)
         \o (IF expr.else_branch = <<>> THEN <<>> ELSE PlanStmts(expr.else_branch[1]))
    ELSE PlanStmts(expr.init)
         \o (IF expr.condition = <<>> THEN <<>>
             ELSE <<PlanCond(expr.condition[1], "Loop condition must be boolean, got ")>>)
         \o PlanStmts(expr.update)
         \o PlanStmts(expr.body)

CTop(c) == c.stack[Len(c.stack)]

CReturn(c, r) == [c EXCEPT !.stack = SubSeq(@, 1, Len(@) - 1), !.ret = r]

CEnter(c, expr) == [c EXCEPT !.stack = Append(@, [expr |-> expr, i |-> 0]),
                             !.ret = [ok |-> TRUE, type |-> TNull, err |-> <<>>, none |-> TRUE]]

\* The If or Loop of the innermost frame goes on from step k of its plan,
\* up to the next statement it checks.
RECURSIVE AdvancePlan(_, _, _)
AdvancePlan(c, plan, k) ==
    IF k > Len(plan) THEN CReturn(c, T_Ok(TNull))
    ELSE IF plan[k].step = "stmt"
    THEN CEnter([c EXCEPT !.stack[Len(c.stack)].i = k], plan[k].expr)
    ELSE With(infer_type(c, plan[k].expr), LAMBDA cond_type :
            IF ~cond_type.ok THEN CReturn(c, cond_type)
            ELSE IF cond_type.type # TBool
            THEN CReturn(c, T_Err(<<Lit(plan[k].what), Dbg(cond_type.type)>>))
            ELSE AdvancePlan(c, plan, k + 1))

\* check_expr is entered for the expression of the innermost frame.
CBegin(c) ==
    LET expr == CTop(c).expr
    IN  CASE expr.kind \in {"IntLiteral", "FloatLiteral", "StringLiteral", "BoolLiteral",
                            "NullLiteral", "Identifier"} -> CReturn(c, infer_type(c, expr))
          [] expr.kind = "List" -> CReturn(c, CheckList(c, expr.items))
          [] expr.kind = "Map" -> CReturn(c, CheckMap(c, expr.entries))
          [] expr.kind = "VarDeclaration" ->
                LET value_type == infer_type(c, expr.value)
                IN  IF ~value_type.ok THEN CReturn(c, value_type)
                    ELSE CReturn([c EXCEPT !.variables = Insert(@, expr.name, value_type.type)],
                                 value_type)
          [] expr.kind = "BinaryOp" -> CReturn(c, CheckBinary(c, expr))
          [] expr.kind = "UnaryOp" -> CReturn(c, CheckUnary(c, expr))
          [] expr.kind \in {"If", "Loop"} -> AdvancePlan(c, Plan(expr), 1)
          [] expr.kind \in {"Continue", "Break"} -> CReturn(c, T_Ok(TNull))
          [] expr.kind = "Return" ->
                IF expr.values = <<>> THEN CReturn(c, T_Ok(TNull))
                ELSE CEnter(c, expr.values[1])
          [] expr.kind = "FunctionCall" -> CReturn(c, CheckCall(c, expr.name, expr.args))
          [] expr.kind = "Output" ->
                IF expr.args = <<>> THEN CReturn(c, T_Ok(TNull))
                ELSE CEnter(c, expr.args[1])
          [] expr.kind \in {"OutputFormatted", "OutputAddress", "Input", "InputFormatted",
                            "TypeCheck"} -> CEnter(c, expr.expr)
          [] expr.kind = "TypeConversion" ->
                CReturn(c, CheckConversion(c, expr.expr, expr.target_type))
          [] OTHER -> CReturn(c, T_Err(<<Lit("Type checking not implemented for "), Dbg(expr)>>))

\* A check_expr called by the innermost frame returned Ok.
CResume(c) ==
    LET f == CTop(c)
        expr == f.expr
        n == f.i + 1
        d == [c EXCEPT !.stack[Len(c.stack)].i = n]
    IN  CASE expr.kind = "Return" ->
                IF n < Len(expr.values) THEN CEnter(d, expr.values[n + 1])
                ELSE CReturn(d, T_Ok(TNull))
          [] expr.kind = "Output" ->
                IF n < Len(expr.args) THEN CEnter(d, expr.args[n + 1])
                ELSE CReturn(d, T_Ok(TNull))
          [] expr.kind = "OutputFormatted" ->
                IF c.ret.type # TString
                THEN CReturn(d, T_Err(<<Lit("outputf requires a string argument, got "),
                                        Dbg(c.ret.type)>>))
                ELSE CReturn(d, T_Ok(TNull))
          [] expr.kind \in {"If", "Loop"} -> AdvancePlan(c, Plan(expr), n)
          [] expr.kind = "OutputAddress" -> CReturn(d, T_Ok(TNull))
          [] expr.kind = "Input" ->
                IF c.ret.type # TString
                THEN CReturn(d, T_Err(<<Lit("input requires a string prompt, got "),
                                        Dbg(c.ret.type)>>))
                ELSE CReturn(d, T_Ok(TString))
          [] expr.kind = "InputFormatted" ->
                IF c.ret.type # TString
                THEN CReturn(d, T_Err(<<Lit("inputf requires a string argument, got "),
                                        Dbg(c.ret.type)>>))
                ELSE CReturn(d, T_Ok(TString))
          [] expr.kind = "TypeCheck" -> CReturn(d, T_Ok(TBool))

CStep(c) ==
    IF "none" \in DOMAIN c.ret THEN CBegin(c)
    ELSE IF ~c.ret.ok THEN [c EXCEPT !.stack = SubSeq(@, 1, Len(@) - 1)]
    ELSE CResume(c)

RECURSIVE CRun(_)
CRun(c) == IF c.stack = <<>> THEN c ELSE CRun(CStep(c))

\* check_expr(&mut self, expr): [ret, checker].
check_expr(checker, expr) ==
    With(CRun(CEnter([variables |-> checker.variables, functions |-> checker.functions,
                      stack |-> <<>>, ret |-> T_Ok(TNull)], expr)),
         LAMBDA c : [ret |-> c.ret,
                     checker |-> [variables |-> c.variables, functions |-> c.functions]])

\* A loop `for expr in exprs { if let Err(e) = checker.check_expr(expr) {
\* errors.push(prefix + e) } }`, as the state [checker, exprs, i, errors, prefix].
RECURSIVE CheckStatements(_)
CheckStatements(s) ==
    IF s.i > Len(s.exprs) THEN s
    ELSE With(check_expr(s.checker, s.exprs[s.i]), LAMBDA r :
            CheckStatements([s EXCEPT !.checker = r.checker, !.i = @ + 1,
                                      !.errors = IF r.ret.ok THEN @
                                                 ELSE Append(@, s.prefix \o r.ret.err)]))

\* "Check return type" of check_types, for one function.
ReturnErrors(local_checker, func_def) ==
    LET name == func_def.name
        body == func_def.body
        values == body[Len(body)].values
        bad == {i \in 1..Len(values) :
                   /\ infer_type(local_checker, values[i]).ok
                   /\ ~types_compatible(infer_type(local_checker, values[i]).type,
                                        func_def.return_types[i])}
        ordered == Ascending(bad)
    IN  IF body = <<>> THEN <<>>
        ELSE IF body[Len(body)].kind = "Return"
        THEN IF Len(values) # Len(func_def.return_types)
             THEN << <<Lit("Function '"), Txt(name), Lit("' returns "),
                       Txt(NatToChars(Len(values))), Lit(" values, but declared to return "),
                       Txt(NatToChars(Len(func_def.return_types))), Lit(" values")>> >>
             ELSE [j \in 1..Len(ordered) |->
                      <<Lit("Function '"), Txt(name), Lit("' return value "),
                        Txt(NatToChars(ordered[j] - 1)), Lit(" has type "),
                        Dbg(infer_type(local_checker, values[ordered[j]]).type),
                        Lit(", expected "), Dbg(func_def.return_types[ordered[j]])>>]
        ELSE IF func_def.return_types # <<>> /\ func_def.return_types # <<TNull>>
        THEN << <<Lit("Function '"), Txt(name), Lit("' is missing return statement")>> >>
        ELSE <<>>

\* "Register function signatures".
Signatures(prog) ==
    [name \in DOMAIN prog.functions |->
        FunctionType(prog.functions[name].params, prog.functions[name].return_types)]

\* "Add parameters to local scope": inserts in order, the last of a name stays.
ParamScope(params) ==
    [n \in {params[i][1] : i \in DOMAIN params} |->
        params[CHOOSE i \in DOMAIN params :
                  params[i][1] = n /\ \A j \in DOMAIN params : params[j][1] = n => j <= i][2]]

\* One round of "Check function bodies".
CheckFunction(prog, func_def) ==
    With(CheckStatements([checker |-> [variables |-> ParamScope(func_def.params),
                                       functions |-> Signatures(prog)],
                          exprs |-> func_def.body, i |-> 1, errors |-> <<>>,
                          prefix |-> <<Lit("In function '"), Txt(func_def.name), Lit("': ")>>]),
         LAMBDA s : s.errors \o ReturnErrors(s.checker, func_def))

RECURSIVE CheckFunctions(_, _, _)
CheckFunctions(prog, order, i) ==
    IF i > Len(order) THEN <<>>
    ELSE CheckFunction(prog, prog.functions[order[i]]) \o CheckFunctions(prog, order, i + 1)

\* The orders in which a HashMap of these functions may be iterated.
IterationOrders(functions) ==
    {order \in [1..Cardinality(DOMAIN functions) -> DOMAIN functions] :
        \A i, j \in DOMAIN order : i # j => order[i] # order[j]}

\* check_types(program), the functions iterated in the given order.
check_types(prog, order) ==
    CheckFunctions(prog, order, 1)
        \o CheckStatements([checker |-> [variables |-> EmptyMap, functions |-> Signatures(prog)],
                            exprs |-> prog.main_block, i |-> 1, errors |-> <<>>,
                            prefix |-> <<>>]).errors

------------------------------------------------------------------------------
(* main.rs: run_program, one action per stage it calls and per decision it  *)
(* takes between them; the call of interpret runs the actions of interpret. *)

\* A run_program that goes on with the tokens lexed before a failure.
Tokenized_always(r) == TRUE

\* Ok(tokens) of `match lexer::tokenize(source)`.
Tokenized(r) == r.ok

\* Ok(ast) of `match parser::parse(tokens)`.
Parsed(r) == r.ok

\* A run_program without the return on type errors.
TypesPass_always(errors) == TRUE

\* `if !type_errors.is_empty() { return Err(..) }` is passed.
TypesPass(errors) == errors = <<>>

ReturnedOk == [ok |-> TRUE, err |-> <<>>]

ReturnedErr(prefix, e) == [ok |-> FALSE, err |-> <<Lit(prefix)>> \o e]

Tokenize ==
    /\ stage = "tokenize"
    /\ calls' = Append(calls, "tokenize")
    /\ \E r \in {tokenize(source)} :
           IF Tokenized(r)
           THEN /\ tokens' = r.tokens
                /\ stage' = "parse"
                /\ outcome' = outcome
           ELSE /\ tokens' = tokens
                /\ stage' = "done"
                /\ outcome' = ReturnedErr("Lexer error: ", r.err)
    /\ UNCHANGED <<source, ast, type_errors, interp_vars, call_vars>>

Parse ==
    /\ stage = "parse"
    /\ calls' = Append(calls, "parse")
    /\ \E r \in {parse(tokens)} :
           IF Parsed(r)
           THEN /\ ast' = r.program
                /\ stage' = "check_types"
                /\ outcome' = outcome
           ELSE /\ ast' = ast
                /\ stage' = "done"
                /\ outcome' = ReturnedErr("Parser error: ", r.err)
    /\ UNCHANGED <<source, tokens, type_errors, interp_vars, call_vars>>

\* let type_errors = type_checker::check_types(&ast), the HashMap of the
\* functions iterated in one of its orders.
CheckTypes ==
    /\ stage = "check_types"
    /\ calls' = Append(calls, "check_types")
    /\ \E order \in IterationOrders(ast.functions) : type_errors' = check_types(ast, order)
    /\ stage' = "gate"
    /\ UNCHANGED <<source, tokens, ast, outcome, interp_vars, call_vars>>

\* return Err(format!("Type error: {}", type_errors[0]))
RejectTypes ==
    /\ stage = "gate"
    /\ ~TypesPass(type_errors)
    /\ stage' = "done"
    /\ outcome' = ReturnedErr("Type error: ", type_errors[1])
    /\ UNCHANGED <<source, tokens, ast, type_errors, calls, interp_vars, call_vars>>

\* interpreter::interpret(ast) is called.
CallInterpret ==
    /\ stage = "gate"
    /\ TypesPass(type_errors)
    /\ calls' = Append(calls, "interpret")
    /\ stage' = "interpret"
    /\ program' = ast
    /\ env' = Environment_new
    /\ pc' = "start"
    /\ next_stmt' = 1
    /\ result' = <<>>
    /\ UNCHANGED <<out, log, frames, source, tokens, ast, type_errors, outcome, call_vars>>

\* match interpreter::interpret(ast) { Ok(_) => Ok(()), Err(e) => Err(..) }
ReturnFromInterpret ==
    /\ stage = "interpret"
    /\ pc \in {"ok", "err"}
    /\ stage' = "done"
    /\ outcome' = (IF pc = "ok" THEN ReturnedOk ELSE ReturnedErr("Runtime error: ", result))
    /\ UNCHANGED <<source, tokens, ast, type_errors, calls, interp_vars, call_vars>>

------------------------------------------------------------------------------
(* The sources run_program is given: at most MaxFragments of the pieces     *)
(* below, one after the other.                                              *)

\* x = 1\n
Src_decl ==
    <<"x", " ", "=", " ", "1", "\n">>

\* output(x)\n
Src_output ==
    <<"o", "u", "t", "p", "u", "t", "(", "x", ")", "\n">>

\* output(int("a"))\n
Src_convert ==
    <<"o", "u", "t", "p", "u", "t", "(", "i", "n", "t", "(", "\"", "a", "\"", ")", ")",
      "\n">>

\* @
Src_invalid ==
    <<"@">>

\* output(
Src_open ==
    <<"o", "u", "t", "p", "u", "t", "(">>

\* fun main() { output(2) }\n
Src_main ==
    <<"f", "u", "n", " ", "m", "a", "i", "n", "(", ")", " ", "{", " ", "o", "u", "t", "p",
      "u", "t", "(", "2", ")", " ", "}", "\n">>

\* fun f(a: int): int { return a }\n
Src_fun ==
    <<"f", "u", "n", " ", "f", "(", "a", ":", " ", "i", "n", "t", ")", ":", " ", "i", "n",
      "t", " ", "{", " ", "r", "e", "t", "u", "r", "n", " ", "a", " ", "}", "\n">>

\* y = f(1)\n
Src_bind_call ==
    <<"y", " ", "=", " ", "f", "(", "1", ")", "\n">>

\* f(3)\n
Src_call ==
    <<"f", "(", "3", ")", "\n">>

\* x = "s"\n
Src_string ==
    <<"x", " ", "=", " ", "\"", "s", "\"", "\n">>

\* outputf(x)\n
Src_outputf ==
    <<"o", "u", "t", "p", "u", "t", "f", "(", "x", ")", "\n">>

\* fun g() { z }\n
Src_bad_fun ==
    <<"f", "u", "n", " ", "g", "(", ")", " ", "{", " ", "z", " ", "}", "\n">>

Fragments ==
    {Src_decl, Src_output, Src_convert, Src_invalid, Src_open, Src_main, Src_fun,
     Src_bind_call, Src_call, Src_string, Src_outputf, Src_bad_fun}

RECURSIVE Concatenations(_, _)
Concatenations(S, n) ==
    IF n = 0 THEN {<<>>}
    ELSE LET shorter == Concatenations(S, n - 1)
         IN  shorter \cup {q \o x : q \in shorter, x \in S}

Sources == Concatenations(Fragments, MaxFragments)

InitPipeline ==
    /\ source \in Sources
    /\ stage = "tokenize"
    /\ tokens = <<>>
    /\ ast = Program(EmptyMap, <<>>)
    /\ type_errors = <<>>
    /\ calls = <<>>
    /\ outcome = ReturnedOk
    /\ given = [fn |-> "none", args |-> <<>>]
    /\ returned = <<>>
    /\ parser = NoParser
    /\ program = Program(EmptyMap, <<>>)
    /\ env = Environment_new
    /\ pc = "idle"
    /\ next_stmt = 1
    /\ out = <<>>
    /\ log = <<>>
    /\ frames = 0
    /\ result = <<>>

NextPipeline ==
    \/ Tokenize
    \/ Parse
    \/ CheckTypes
    \/ RejectTypes
    \/ CallInterpret
    \/ Register
    \/ RunMainStmt
    \/ RunBlockStmt
    \/ ReturnOk
    \/ ReturnFromInterpret

SpecPipeline == InitPipeline /\ [][NextPipeline]_all_vars

------------------------------------------------------------------------------
(* Whole programs handed to run_program as their source texts.              *)

\* fun f(a: int): int { return a }
\* output(f(1))
Prog_plain ==
    <<"f", "u", "n", " ", "f", "(", "a", ":", " ", "i", "n", "t", ")", ":",
      " ", "i", "n", "t", " ", "{", " ", "r", "e", "t", "u", "r", "n", " ",
      "a", " ", "}", "\n", "o", "u", "t", "p", "u", "t", "(", "f", "(", "1",
      ")", ")", "\n">>

\* fun f(a: int): int { return a }
\* f = 1
\* output(f(2), f)
Prog_shadow ==
    <<"f", "u", "n", " ", "f", "(", "a", ":", " ", "i", "n", "t", ")", ":",
      " ", "i", "n", "t", " ", "{", " ", "r", "e", "t", "u", "r", "n", " ",
      "a", " ", "}", "\n", "f", " ", "=", " ", "1", "\n", "o", "u", "t", "p",
      "u", "t", "(", "f", "(", "2", ")", ",", " ", "f", ")", "\n">>

\* fun g(): int { return 1 }
\* fun f(g: int): int { g = 2 output(g()) return g }
\* f(1)
Prog_shadow_in_frame ==
    <<"f", "u", "n", " ", "g", "(", ")", ":", " ", "i", "n", "t", " ", "{",
      " ", "r", "e", "t", "u", "r", "n", " ", "1", " ", "}", "\n", "f", "u",
      "n", " ", "f", "(", "g", ":", " ", "i", "n", "t", ")", ":", " ", "i",
      "n", "t", " ", "{", " ", "g", " ", "=", " ", "2", " ", "o", "u", "t",
      "p", "u", "t", "(", "g", "(", ")", ")", " ", "r", "e", "t", "u", "r",
      "n", " ", "g", " ", "}", "\n", "f", "(", "1", ")", "\n">>

\* fun main(a: int) { output(a) }
Prog_main_param ==
    <<"f", "u", "n", " ", "m", "a", "i", "n", "(", "a", ":", " ", "i", "n",
      "t", ")", " ", "{", " ", "o", "u", "t", "p", "u", "t", "(", "a", ")",
      " ", "}", "\n">>

\* x = int(y)
Prog_convert_undefined ==
    <<"x", " ", "=", " ", "i", "n", "t", "(", "y", ")", "\n">>

\* x = 1
\* fun f() { output(x) }
\* f()
Prog_local ==
    <<"x", " ", "=", " ", "1", "\n", "f", "u", "n", " ", "f", "(", ")", " ",
      "{", " ", "o", "u", "t", "p", "u", "t", "(", "x", ")", " ", "}", "\n",
      "f", "(", ")", "\n">>

\* fun f(): int { }
\* output(f())
Prog_empty_body ==
    <<"f", "u", "n", " ", "f", "(", ")", ":", " ", "i", "n", "t", " ", "{",
      " ", "}", "\n", "o", "u", "t", "p", "u", "t", "(", "f", "(", ")", ")",
      "\n">>

\* fun f(): int { return "s" return 1 }
\* output(f())
Prog_early_return ==
    <<"f", "u", "n", " ", "f", "(", ")", ":", " ", "i", "n", "t", " ", "{",
      " ", "r", "e", "t", "u", "r", "n", " ", "\"", "s", "\"", " ", "r", "e",
      "t", "u", "r", "n", " ", "1", " ", "}", "\n", "o", "u", "t", "p", "u",
      "t", "(", "f", "(", ")", ")", "\n">>

\* fun f(): null { 1 }
\* output(f())
Prog_null_type ==
    <<"f", "u", "n", " ", "f", "(", ")", ":", " ", "n", "u", "l", "l", " ",
      "{", " ", "1", " ", "}", "\n", "o", "u", "t", "p", "u", "t", "(", "f",
      "(", ")", ")", "\n">>

\* fun g(): string { return "s" }
\* fun f(): int { return g() }
\* output(f())
Prog_return_call ==
    <<"f", "u", "n", " ", "g", "(", ")", ":", " ", "s", "t", "r", "i", "n",
      "g", " ", "{", " ", "r", "e", "t", "u", "r", "n", " ", "\"", "s", "\"",
      " ", "}", "\n", "f", "u", "n", " ", "f", "(", ")", ":", " ", "i", "n",
      "t", " ", "{", " ", "r", "e", "t", "u", "r", "n", " ", "g", "(", ")",
      " ", "}", "\n", "o", "u", "t", "p", "u", "t", "(", "f", "(", ")", ")",
      "\n">>

\* fun f(): float { return 1 }
\* output(f())
Prog_widen ==
    <<"f", "u", "n", " ", "f", "(", ")", ":", " ", "f", "l", "o", "a", "t",
      " ", "{", " ", "r", "e", "t", "u", "r", "n", " ", "1", " ", "}", "\n",
      "o", "u", "t", "p", "u", "t", "(", "f", "(", ")", ")", "\n">>

\* fun f(a: int): int { return a }
\* fun main() { output(f(3)) }
Prog_return_param ==
    <<"f", "u", "n", " ", "f", "(", "a", ":", " ", "i", "n", "t", ")", ":",
      " ", "i", "n", "t", " ", "{", " ", "r", "e", "t", "u", "r", "n", " ",
      "a", " ", "}", "\n", "f", "u", "n", " ", "m", "a", "i", "n", "(", ")",
      " ", "{", " ", "o", "u", "t", "p", "u", "t", "(", "f", "(", "3", ")",
      ")", " ", "}", "\n">>

\* fun g() { z }
\* fun h() { w }
Prog_two_bad ==
    <<"f", "u", "n", " ", "g", "(", ")", " ", "{", " ", "z", " ", "}", "\n",
      "f", "u", "n", " ", "h", "(", ")", " ", "{", " ", "w", " ", "}", "\n">>

\* fun g() { z }
\* w
Prog_bad_and_block ==
    <<"f", "u", "n", " ", "g", "(", ")", " ", "{", " ", "z", " ", "}", "\n",
      "w", "\n">>

\* fun f(): int { return 1, 2 }
\* f()
Prog_arity ==
    <<"f", "u", "n", " ", "f", "(", ")", ":", " ", "i", "n", "t", " ", "{",
      " ", "r", "e", "t", "u", "r", "n", " ", "1", ",", " ", "2", " ", "}",
      "\n", "f", "(", ")", "\n">>

\* fun f(): int { 1 }
\* f()
Prog_missing_return ==
    <<"f", "u", "n", " ", "f", "(", ")", ":", " ", "i", "n", "t", " ", "{",
      " ", "1", " ", "}", "\n", "f", "(", ")", "\n">>

\* fun r() { r() }
\* r()
Prog_recursive ==
    <<"f", "u", "n", " ", "r", "(", ")", " ", "{", " ", "r", "(", ")", " ",
      "}", "\n", "r", "(", ")", "\n">>

\* fun f(a: int): int { return int("a") }
\* output(f(1))
Prog_runtime_error ==
    <<"f", "u", "n", " ", "f", "(", "a", ":", " ", "i", "n", "t", ")", ":",
      " ", "i", "n", "t", " ", "{", " ", "r", "e", "t", "u", "r", "n", " ",
      "i", "n", "t", "(", "\"", "a", "\"", ")", " ", "}", "\n", "o", "u",
      "t", "p", "u", "t", "(", "f", "(", "1", ")", ")", "\n">>

\* fun f(): int { return int("7") }
\* output(f())
Prog_convert_return ==
    <<"f", "u", "n", " ", "f", "(", ")", ":", " ", "i", "n", "t", " ", "{",
      " ", "r", "e", "t", "u", "r", "n", " ", "i", "n", "t", "(", "\"", "7",
      "\"", ")", " ", "}", "\n", "o", "u", "t", "p", "u", "t", "(", "f", "(",
      ")", ")", "\n">>

\* fun k() { return 1 }
\* output(k())
Prog_no_types ==
    <<"f", "u", "n", " ", "k", "(", ")", " ", "{", " ", "r", "e", "t", "u",
      "r", "n", " ", "1", " ", "}", "\n", "o", "u", "t", "p", "u", "t", "(",
      "k", "(", ")", ")", "\n">>

ProgramSources ==
    {Prog_plain, Prog_shadow, Prog_shadow_in_frame, Prog_main_param,
     Prog_convert_undefined, Prog_local, Prog_empty_body,
     Prog_early_return, Prog_null_type, Prog_return_call, Prog_widen,
     Prog_return_param, Prog_two_bad, Prog_bad_and_block, Prog_arity,
     Prog_missing_return, Prog_recursive, Prog_runtime_error,
     Prog_convert_return, Prog_no_types}

InitPrograms ==
    /\ source \in ProgramSources
    /\ stage = "tokenize"
    /\ tokens = <<>>
    /\ ast = Program(EmptyMap, <<>>)
    /\ type_errors = <<>>
    /\ calls = <<>>
    /\ outcome = ReturnedOk
    /\ given = [fn |-> "none", args |-> <<>>]
    /\ returned = <<>>
    /\ parser = NoParser
    /\ program = Program(EmptyMap, <<>>)
    /\ env = Environment_new
    /\ pc = "idle"
    /\ next_stmt = 1
    /\ out = <<>>
    /\ log = <<>>
    /\ frames = 0
    /\ result = <<>>

SpecPrograms == InitPrograms /\ [][NextPipeline]_all_vars

------------------------------------------------------------------------------
(* parse(tokenize(source)): the first two steps of run_program, on sources  *)
(* with operators, sources of literals only, and sources put together from  *)
(* pieces of text (comments, blanks, unmatched characters among them).      *)

\* Sources with operators, each with the tree the grammar of the
\* specification gives it.
OperatorCases ==
    { \* 1 + 2 * 3
      [source |-> <<"1", " ", "+", " ", "2", " ", "*", " ", "3">>,
       expected |-> BinaryOp(IntLiteral(1), "Add", BinaryOp(IntLiteral(2), "Multiply", IntLiteral(3)))],
      \* 1 * 2 + 3
      [source |-> <<"1", " ", "*", " ", "2", " ", "+", " ", "3">>,
       expected |-> BinaryOp(BinaryOp(IntLiteral(1), "Multiply", IntLiteral(2)), "Add", IntLiteral(3))],
      \* 1 == 2
      [source |-> <<"1", " ", "=", "=", " ", "2">>,
       expected |-> BinaryOp(IntLiteral(1), "Equal", IntLiteral(2))],
      \* 1 < 2 && true
      [source |-> <<"1", " ", "<", " ", "2", " ", "&", "&", " ", "t", "r", "u", "e">>,
       expected |-> BinaryOp(BinaryOp(IntLiteral(1), "LessThan", IntLiteral(2)), "And", BoolLiteral(TRUE))],
      \* true || false && true
      [source |-> <<"t", "r", "u", "e", " ", "|", "|", " ", "f", "a", "l", "s", "e", " ", "&", "&", " ", "t", "r", "u", "e">>,
       expected |-> BinaryOp(BoolLiteral(TRUE), "Or", BinaryOp(BoolLiteral(FALSE), "And", BoolLiteral(TRUE)))],
      \* !true
      [source |-> <<"!", "t", "r", "u", "e">>,
       expected |-> UnaryOp("Not", BoolLiteral(TRUE))],
      \* x = 1 + 2
      [source |-> <<"x", " ", "=", " ", "1", " ", "+", " ", "2">>,
       expected |-> VarDeclaration(nx, BinaryOp(IntLiteral(1), "Add", IntLiteral(2)))] }

\* The literals, each with its node.
LiteralPieces ==
    { \* 5
      [text |-> <<"5">>, node |-> IntLiteral(5)],
      \* -3
      [text |-> <<"-", "3">>, node |-> IntLiteral(-3)],
      \* 2.5
      [text |-> <<"2", ".", "5">>, node |-> FloatLiteral(25, 1)],
      \* 0.50
      [text |-> <<"0", ".", "5", "0">>, node |-> FloatLiteral(5, 1)],
      \* "hi"
      [text |-> <<"\"", "h", "i", "\"">>, node |-> StringLiteral(<<"h", "i">>)],
      \* ""
      [text |-> <<"\"", "\"">>, node |-> StringLiteral(<<>>)],
      \* "a b"
      [text |-> <<"\"", "a", " ", "b", "\"">>, node |-> StringLiteral(<<"a", " ", "b">>)],
      \* "a\"#"
      [text |-> <<"\"", "a", "\\", "\"", "#", "\"">>, node |-> StringLiteral(<<"a", "\\", "\"", "#">>)],
      \* true
      [text |-> <<"t", "r", "u", "e">>, node |-> BoolLiteral(TRUE)],
      \* false
      [text |-> <<"f", "a", "l", "s", "e">>, node |-> BoolLiteral(FALSE)],
      \* null
      [text |-> <<"n", "u", "l", "l">>, node |-> NullLiteral] }

\* The texts of the literals ls, in order, one blank between two of them.
RECURSIVE JoinLiterals(_)
JoinLiterals(ls) ==
    IF ls = <<>> THEN <<>>
    ELSE IF Len(ls) = 1 THEN ls[1].text
    ELSE ls[1].text \o <<" ">> \o JoinLiterals(Tail(ls))

LiteralSources == {JoinLiterals(ls) : ls \in SeqsUpTo(LiteralPieces, MaxLiterals)}

LexPieces ==
    { <<"x">>,
      <<"_", "a", "1">>,
      <<"=">>,
      <<"1">>,
      <<"2", ".", "5">>,
      <<" ">>,
      <<"\n">>,
      <<"\t">>,
      <<"#", " ", "c">>,
      <<"#", "#", "#", " ", "m", "\n", " ", "#", "#", "#">>,
      <<"1", " ", "#", " ", "c", "\n">>,
      <<"(", "#", "#", "#", "\n", "#", "#", "#">>,
      <<"#", "#", "#">>,
      <<"o", "u", "t", "p", "u", "t">>,
      <<"(">>,
      <<"<", "=">>,
      <<"<">>,
      <<"\"", "s", " ", "#", "\"">>,
      <<"@">>,
      <<"\"">>,
      <<"!">>,
      <<"f", "u", "n">>,
      <<"-">> }

LexSources == Concatenations(LexPieces, MaxPieces)

ParseSources == {c.source : c \in OperatorCases} \cup LiteralSources \cup LexSources

InitParse ==
    /\ source \in ParseSources
    /\ stage = "tokenize"
    /\ tokens = <<>>
    /\ ast = Program(EmptyMap, <<>>)
    /\ type_errors = <<>>
    /\ calls = <<>>
    /\ outcome = ReturnedOk
    /\ given = [fn |-> "none", args |-> <<>>]
    /\ returned = <<>>
    /\ parser = NoParser
    /\ program = Program(EmptyMap, <<>>)
    /\ env = Environment_new
    /\ pc = "idle"
    /\ next_stmt = 1
    /\ out = <<>>
    /\ log = <<>>
    /\ frames = 0
    /\ result = <<>>

NextParse == Tokenize \/ Parse

SpecParse == InitParse /\ [][NextParse]_all_vars

------------------------------------------------------------------------------
(* Functions of the type checker called on their own: `given` holds the     *)
(* function and its arguments, `returned` what it returned.                 *)

\* Neither interpret nor run_program is running.
NothingRunning ==
    /\ program = Program(EmptyMap, <<>>)
    /\ env = Environment_new
    /\ pc = "idle"
    /\ next_stmt = 1
    /\ out = <<>>
    /\ log = <<>>
    /\ frames = 0
    /\ result = <<>>
    /\ source = <<>>
    /\ stage = "off"
    /\ tokens = <<>>
    /\ ast = program
    /\ type_errors = <<>>
    /\ calls = <<>>
    /\ outcome = ReturnedOk

\* The types types_compatible is called on.
TypePool ==
    { TInt, TFloat, TString, TBool, TNull, TAny,
      TList(TInt), TList(TFloat), TList(TAny), TMap(TString, TInt), TMap(TAny, TAny) }

InitCompatible ==
    /\ NothingRunning
    /\ given \in {[fn |-> "types_compatible", args |-> <<a, b>>] : a \in TypePool, b \in TypePool}
    /\ returned = <<>>
    /\ parser = NoParser

CallTypesCompatible ==
    /\ given.fn = "types_compatible"
    /\ returned = <<>>
    /\ returned' = <<types_compatible(given.args[1], given.args[2])>>
    /\ UNCHANGED <<interp_vars, pipeline_vars, given, parser>>

NextCompatible == CallTypesCompatible

SpecCompatible == InitCompatible /\ [][NextCompatible]_all_vars

------------------------------------------------------------------------------
(* check_types called on a program.                                         *)

Literals ==
    {IntLiteral(1), FloatLiteral(25, 1), StringLiteral(<<"a">>), BoolLiteral(TRUE), NullLiteral}

LiteralType(e) ==
    CASE e.kind = "IntLiteral" -> TInt
      [] e.kind = "FloatLiteral" -> TFloat
      [] e.kind = "StringLiteral" -> TString
      [] e.kind = "BoolLiteral" -> TBool
      [] e.kind = "NullLiteral" -> TNull

\* One statement: a list literal of literals.
ListPrograms == {Program(EmptyMap, <<List(items)>>) : items \in SeqsUpTo(Literals, MaxItems)}

BinaryOperators ==
    {"Add", "Subtract", "Multiply", "Divide", "Modulo", "Equal", "NotEqual", "LessThan",
     "LessThanOrEqual", "GreaterThan", "GreaterThanOrEqual", "And", "Or"}

\* A binary operator on two literals.
BinaryExprs == {BinaryOp(l, op, r) : l \in Literals, r \in Literals, op \in BinaryOperators}

\* Entry blocks with none, one or several inconsistencies, in one statement
\* or in several.
StatementBlocks ==
    { <<Output(<<Identifier(nx), Identifier(ny)>>)>>,
      <<Output(<<Identifier(nx)>>), Output(<<Identifier(ny)>>)>>,
      <<VarDeclaration(nx, IntLiteral(1)), Output(<<Identifier(nx), Identifier(nz)>>)>>,
      <<VarDeclaration(nx, IntLiteral(1)), Output(<<Identifier(nx)>>)>>,
      <<If(BoolLiteral(TRUE), <<Identifier(nx)>>, <<>>, <<<<Identifier(ny)>>>>)>>,
      <<If(BoolLiteral(TRUE), <<Output(<<IntLiteral(1)>>)>>,
           <<<<IntLiteral(1), <<Identifier(nx)>>>>>>, <<>>)>>,
      <<If(IntLiteral(1), <<>>, <<>>, <<>>)>>,
      <<If(BoolLiteral(TRUE), <<VarDeclaration(nx, IntLiteral(1))>>,
           <<<<BoolLiteral(FALSE), <<Identifier(nx)>>>>>>, << <<Identifier(nz)>> >>)>>,
      <<Loop(<<VarDeclaration(nx, IntLiteral(0))>>, <<BoolLiteral(TRUE)>>,
             <<VarDeclaration(nx, IntLiteral(1))>>, <<Output(<<Identifier(nx)>>), Break>>)>>,
      <<Loop(<<>>, <<Identifier(nx)>>, <<>>, <<Continue>>)>>,
      <<Loop(<<>>, <<StringLiteral(<<"a">>)>>, <<>>, <<>>)>>,
      <<Loop(<<>>, <<>>, <<>>, <<Identifier(nx), Identifier(ny)>>)>>,
      <<UnaryOp("Negate", IntLiteral(1)), UnaryOp("Negate", BoolLiteral(TRUE)),
        UnaryOp("Not", BoolLiteral(TRUE))>>,
      <<UnaryOp("Not", IntLiteral(1)), UnaryOp("AddressOf", NullLiteral)>>,
      <<BinaryOp(Identifier(nx), "Add", Identifier(ny))>>,
      <<BinaryOp(IntLiteral(1), "Add", BinaryOp(IntLiteral(2), "Multiply", IntLiteral(3)))>>,
      <<OutputAddress(Identifier(nx)), OutputFormatted(IntLiteral(1))>>,
      <<Input(StringLiteral(<<"a">>)), Input(IntLiteral(1)), InputFormatted(IntLiteral(1))>>,
      <<TypeCheck(IntLiteral(1), TInt, FALSE), TypeCheck(Identifier(nx), TInt, TRUE)>>,
      <<Map(<<<<StringLiteral(<<"k">>), IntLiteral(1)>>, <<IntLiteral(2), BoolLiteral(TRUE)>>>>)>>,
      <<FunctionCall(nf, <<>>), TypeConversion(BoolLiteral(TRUE), TInt)>>,
      <<Return(<<Identifier(nx), Identifier(ny)>>)>> }

StatementPrograms == {Program(EmptyMap, b) : b \in StatementBlocks}

ReturnTypeLists ==
    {<<>>, <<TInt>>, <<TNull>>, <<TString>>, <<TAny>>, <<TInt, TString>>, <<TNull, TNull>>}

Bodies ==
    { <<>>,
      <<Return(<<>>)>>,
      <<Return(<<IntLiteral(1)>>)>>,
      <<Return(<<IntLiteral(1), IntLiteral(2)>>)>>,
      <<Return(<<StringLiteral(<<"a">>)>>)>>,
      <<Return(<<IntLiteral(1), StringLiteral(<<"a">>)>>)>>,
      <<Return(<<StringLiteral(<<"a">>), IntLiteral(1)>>)>>,
      <<Return(<<NullLiteral>>)>>,
      <<Return(<<List(<<IntLiteral(1)>>)>>)>>,
      <<Return(<<Identifier(nz)>>)>>,
      <<VarDeclaration(nx, IntLiteral(1)), Return(<<Identifier(nx)>>)>>,
      <<VarDeclaration(nx, IntLiteral(1))>>,
      <<Output(<<IntLiteral(1)>>)>>,
      <<Return(<<IntLiteral(1)>>), Output(<<IntLiteral(1)>>)>>,
      <<If(BoolLiteral(TRUE), <<Return(<<IntLiteral(1)>>)>>, <<>>, <<>>)>> }

\* One function f without parameters, and the same next to a function g
\* that returns nothing.
FunctionPrograms ==
    {Program(Table({FunctionDef(nf, <<>>, rts, body)} \cup others), <<>>) :
        rts \in ReturnTypeLists, body \in Bodies,
        others \in {{}, {FunctionDef(ng, <<>>, <<TInt>>, <<Identifier(nz)>>)}}}

CheckPrograms == ListPrograms \cup StatementPrograms \cup FunctionPrograms

\* check_types on a program, or check_expr of a checker that knows no
\* variable and no function on an expression.
InitCheck ==
    /\ NothingRunning
    /\ given \in {[fn |-> "check_types", args |-> <<prog>>] : prog \in CheckPrograms}
                  \cup {[fn |-> "check_expr", args |-> <<e>>] : e \in BinaryExprs}
    /\ returned = <<>>
    /\ parser = NoParser

CallCheckExpr ==
    /\ given.fn = "check_expr"
    /\ returned = <<>>
    /\ returned' = <<check_expr([variables |-> EmptyMap, functions |-> EmptyMap],
                                given.args[1]).ret>>
    /\ UNCHANGED <<interp_vars, pipeline_vars, given, parser>>

CallCheckTypes ==
    /\ given.fn = "check_types"
    /\ returned = <<>>
    /\ \E order \in IterationOrders(given.args[1].functions) :
          returned' = <<check_types(given.args[1], order)>>
    /\ UNCHANGED <<interp_vars, pipeline_vars, given, parser>>

NextCheck == CallCheckTypes \/ CallCheckExpr

SpecCheck == InitCheck /\ [][NextCheck]_all_vars

------------------------------------------------------------------------------
(* parse called on tokens, one step of its descent at a time.  The tokens   *)
(* are those of the whole programs, of the sources of literals and of the   *)
(* operator sources, and every sequence they start with (a source that      *)
(* breaks off).                                                             *)

Prefixes(q) == {SubSeq(q, 1, n) : n \in 0..Len(q)}

TokenLists ==
    UNION {Prefixes(tokenize(s).tokens) :
              s \in ProgramSources \cup LiteralSources \cup {c.source : c \in OperatorCases}}

\* let mut parser = Parser { tokens, current: 0 }; parser.parse_program()
InitParser ==
    /\ NothingRunning
    /\ \E toks \in TokenLists :
          /\ given = [fn |-> "parse", args |-> <<toks>>]
          /\ parser = [tokens |-> toks, current |-> 0, stack |-> <<NewFrame("program")>>,
                       ret |-> P_None]
    /\ returned = <<>>

\* The descent goes one step on; parse returns when its last call has.
ParserStep ==
    /\ given.fn = "parse"
    /\ parser.stack # <<>>
    /\ \E q \in {PStep(parser)} :
          /\ parser' = q
          /\ returned' = IF q.stack = <<>>
                         THEN <<[ok |-> q.ret.res = "Ok", program |-> q.ret.value,
                                 err |-> q.ret.err]>>
                         ELSE returned
    /\ UNCHANGED <<interp_vars, pipeline_vars, given>>

NextParser == ParserStep

SpecParser == InitParser /\ [][NextParser]_all_vars

\* The descent is not held up for ever.
SpecParserLive == InitParser /\ [][NextParser]_all_vars /\ WF_all_vars(NextParser)

------------------------------------------------------------------------------
(* Reading the history.                                                     *)

Events(k) == {p \in DOMAIN log : log[p].k = k}

\* Two eval/done/err events of the same activation level of one frame.
SameLevel(p, q) == log[p].frame = log[q].frame /\ log[p].depth = log[q].depth

IsEvalAt(s, frame, depth) ==
    log[s].k = "eval" /\ log[s].frame = frame /\ log[s].depth = depth

\* The eval event of the evaluation that is running at (frame, depth) just
\* before event p: the latest one.
OpenEval(p, frame, depth) ==
    CHOOSE q \in 1..(p - 1) :
        /\ IsEvalAt(q, frame, depth)
        /\ \A s \in (q + 1)..(p - 1) : ~IsEvalAt(s, frame, depth)

\* The eval events of the direct sub-evaluations of the evaluation that
\* starts at eval event q.
ChildrenOf(q) ==
    {r \in DOMAIN log :
        /\ r > q
        /\ IsEvalAt(r, log[q].frame, log[q].depth + 1)
        /\ \A s \in (q + 1)..r : ~IsEvalAt(s, log[q].frame, log[q].depth)}

\* The done event of the evaluation that starts at eval event q, if it
\* returned Ok: a set of at most one index.
DoneOf(q) ==
    {p \in DOMAIN log :
        /\ p > q
        /\ log[p].k = "done"
        /\ SameLevel(p, q)
        /\ \A s \in (q + 1)..(p - 1) : ~(log[s].k \in {"eval", "done"} /\ SameLevel(s, q))}

Succeeded(q) == DoneOf(q) # {}

ValueOf(q) == log[CHOOSE p \in DoneOf(q) : TRUE].value

\* The enter event of frame F (every frame of a call that ran has one).
EnterOf(F) == CHOOSE p \in Events("enter") : log[p].frame = F

\* The stmt events of frame F, in order.
StmtsOf(F) == Ascending({p \in Events("stmt") : log[p].frame = F})

\* A VarDeclaration of n completed in frame F before event r.
DeclaredBefore(F, n, r) ==
    \E s \in 1..(r - 1) :
        /\ log[s].k = "done" /\ log[s].frame = F
        /\ log[s].e.kind = "VarDeclaration" /\ log[s].e.name = n

UndefinedVariable(n) == <<Lit("Undefined variable: "), Txt(n)>>

------------------------------------------------------------------------------
(* Call frames.                                                             *)

\* The values of the arguments of the call whose eval event is q and whose
\* body starts at enter event p, in argument order.
ArgValues(q, p) ==
    LET dones == Ascending({s \in (q + 1)..(p - 1) :
                               /\ log[s].k = "done"
                               /\ log[s].frame = log[q].frame
                               /\ log[s].depth = log[q].depth + 1})
    IN  [j \in 1..Len(dones) |-> log[dones[j]].value]

\* params bound positionally to values.
BoundPositionally(params, values, vars) ==
    /\ Len(values) = Len(params)
    /\ DOMAIN vars = {params[j][1] : j \in 1..Len(params)}
    /\ \A j \in 1..Len(params) :
          (\A l \in (j + 1)..Len(params) : params[l][1] # params[j][1])
              => vars[params[j][1]] = values[j]

\* C1: the body of a call runs in a frame whose variables are exactly the
\* parameters bound positionally to the argument values (so a name that is
\* neither a parameter nor declared in the body is an "Undefined variable"
\* error there, whatever the caller has bound), and when the call returns the
\* variables of the caller are what they were when the body started.
C1_FrameIsolation ==
    /\ \A p \in Events("enter") :
          LET q == OpenEval(p, log[p].caller, log[p].depth)
          IN  /\ log[q].e.kind = "FunctionCall"
              /\ log[q].e.name = log[p].fn
              /\ BoundPositionally(program.functions[log[p].fn].params,
                                   ArgValues(q, p), log[p].vars)
    /\ \A r \in Events("eval") :
          (/\ log[r].frame > 0
           /\ log[r].e.kind = "Identifier"
           /\ log[r].e.name \notin DOMAIN log[EnterOf(log[r].frame)].vars
           /\ ~DeclaredBefore(log[r].frame, log[r].e.name, r))
          => /\ r + 1 \in Events("err")
             /\ log[r + 1].msg = UndefinedVariable(log[r].e.name)
    /\ \A x \in Events("exit") :
          /\ log[x].callervars = log[EnterOf(log[x].frame)].callervars
          /\ log[x + 1].k = "done"
          /\ log[x + 1].frame = log[x].caller
          /\ log[x + 1].vars = log[EnterOf(log[x].frame)].callervars

\* A call returned after binding x in its own frame to a value other than
\* the caller's x, and a later callee failed on x, which its caller has bound.
C1_Witness ==
    /\ \E x \in Events("exit") :
          /\ nx \in DOMAIN log[x].vars
          /\ nx \in DOMAIN log[x].callervars
          /\ log[x].vars[nx] # log[x].callervars[nx]
    /\ \E p \in Events("enter") :
          /\ nx \in DOMAIN log[p].callervars
          /\ \E r \in Events("err") :
                log[r].frame = log[p].frame /\ log[r].msg = UndefinedVariable(nx)

------------------------------------------------------------------------------
(* Arity.                                                                   *)

ArityMessage(name, expected, actual) ==
    <<Lit("Function '"), Txt(name), Lit("' expects "), Txt(IntToChars(expected)),
      Lit(" arguments, got "), Txt(IntToChars(actual))>>

\* The eval events of calls of a declared function with a number of
\* arguments other than its number of parameters.
ArityMismatches ==
    {q \in Events("eval") :
        /\ log[q].e.kind = "FunctionCall"
        /\ log[q].e.name \in DOMAIN program.functions
        /\ Len(log[q].e.args) # Len(program.functions[log[q].e.name].params)}

\* C2: a call of a declared function with the wrong number of arguments is
\* at once a runtime error naming the function, the expected and the actual
\* count: nothing is evaluated or executed between the call and the error
\* (no argument, no body statement), nothing is printed, the variables of
\* the caller are unchanged, and the error is what interpret returns.
C2_ArityMismatch ==
    \A q \in ArityMismatches :
        /\ Len(log) = q + 1
        /\ log[q + 1].k = "err"
        /\ SameLevel(q + 1, q)
        /\ log[q + 1].msg =
              ArityMessage(log[q].e.name, Len(program.functions[log[q].e.name].params),
                           Len(log[q].e.args))
        /\ log[q + 1].vars = log[q].vars
        /\ log[q + 1].outlen = log[q].outlen
        /\ Len(out) = log[q].outlen
        /\ log[q].frame = 0 => env.variables = log[q].vars
        /\ pc = "err"
        /\ result = log[q + 1].msg

\* A mismatching call whose arguments would bind a variable, made where the
\* caller has variables bound.
C2_Witness ==
    \E q \in ArityMismatches :
        /\ \E j \in DOMAIN log[q].e.args : log[q].e.args[j].kind = "VarDeclaration"
        /\ DOMAIN log[q].vars # {}
        /\ pc = "err"

------------------------------------------------------------------------------
(* Entry selection.                                                         *)

DeclaresMain == MainName \in DOMAIN program.functions

\* The statements interpret is to run.
EntryStatements ==
    IF DeclaresMain THEN program.functions[MainName].body ELSE program.main_block

\* C3: the statements interpret evaluates in the top-level environment are,
\* in order, those of the body of main if the program declares main (none of
\* main_block then) and those of main_block otherwise; nothing else is
\* evaluated at the top level, and when interpret returns Ok all of them were.
C3_EntrySelection ==
    LET tops == StmtsOf(0)
    IN  /\ Len(tops) <= Len(EntryStatements)
        /\ \A i \in 1..Len(tops) :
              /\ log[tops[i]].i = i
              /\ log[tops[i]].e = EntryStatements[i]
              /\ log[tops[i]].entry = (IF DeclaresMain THEN "main" ELSE "main_block")
              /\ IsEvalAt(tops[i] + 1, 0, 0)
              /\ log[tops[i] + 1].e = EntryStatements[i]
              /\ log[tops[i] + 1].vars =
                    (IF i = 1 THEN EmptyMap ELSE log[tops[i] - 1].vars)
        /\ \A r \in Events("eval") :
              IsEvalAt(r, 0, 0) => (r - 1 \in Events("stmt") /\ log[r - 1].frame = 0)
        /\ pc = "ok" => Len(tops) = Len(EntryStatements)

\* interpret returned Ok for a program that declares main and has top-level
\* statements as well: all of main's body ran, a `return` in it included.
C3_Witness ==
    /\ pc = "ok"
    /\ DeclaresMain
    /\ program.main_block # <<>>
    /\ Len(StmtsOf(0)) = Len(program.functions[MainName].body)
    /\ \E i \in 1..(Len(StmtsOf(0)) - 1) : log[StmtsOf(0)[i]].e.kind = "Return"

------------------------------------------------------------------------------
(* The body loop of a call.                                                 *)

BodyOf(F) == program.functions[log[EnterOf(F)].fn].body

\* The eval event of the i-th statement that frame F ran.
StmtEval(F, i) == StmtsOf(F)[i] + 1

\* C4: a call evaluates the statements of the body in order; a statement
\* follows only a statement that is not a Return, and does follow every
\* completed statement that is not itself a Return (a Return nested in it
\* changes nothing) unless the body is over; the call returns what its last
\* statement yielded, with that statement a Return or the last of the body;
\* nothing of the body is evaluated but these statements.
C4_BodyStopsAtReturn ==
    \A p \in Events("enter") :
        LET F == log[p].frame
            body == BodyOf(F)
            S == StmtsOf(F)
        IN  /\ Len(S) <= Len(body)
            /\ \A i \in 1..Len(S) :
                  /\ log[S[i]].i = i
                  /\ log[S[i]].e = body[i]
                  /\ IsEvalAt(S[i] + 1, F, log[p].depth + 1)
                  /\ log[S[i] + 1].e = body[i]
                  /\ i < Len(S) => body[i].kind # "Return"
                  /\ (Succeeded(S[i] + 1) /\ body[i].kind # "Return" /\ i < Len(body))
                        => Len(S) > i
                  /\ (Succeeded(S[i] + 1) /\ (body[i].kind = "Return" \/ i = Len(body)))
                        => \E x \in Events("exit") :
                              /\ log[x].frame = F
                              /\ x - 1 \in DoneOf(S[i] + 1)
                              /\ log[x].value = ValueOf(S[i] + 1)
            /\ \A r \in Events("eval") :
                  IsEvalAt(r, F, log[p].depth + 1)
                      => (r - 1 \in Events("stmt") /\ log[r - 1].frame = F)
            /\ \A x \in Events("exit") :
                  log[x].frame = F =>
                      /\ log[x + 1].k = "done"
                      /\ log[x + 1].e.kind = "FunctionCall"
                      /\ log[x + 1].value = log[x].value
                      /\ IF body = <<>> THEN log[x].value = VNull
                         ELSE /\ Len(S) >= 1
                              /\ log[x].value = ValueOf(S[Len(S)] + 1)
                              /\ body[Len(S)].kind = "Return" \/ Len(S) = Len(body)

HasNestedReturn(expr) ==
    expr.kind = "Output" /\ \E j \in DOMAIN expr.args : expr.args[j].kind = "Return"

\* One call returned at a Return with statements left in its body, and
\* another ran the statement after one that has a Return nested in it.
C4_Witness ==
    /\ \E x \in Events("exit") :
          /\ Len(StmtsOf(log[x].frame)) < Len(BodyOf(log[x].frame))
          /\ log[x].value # VNull
    /\ \E p \in Events("enter") :
          \E i \in 1..(Len(StmtsOf(log[p].frame)) - 1) :
              HasNestedReturn(BodyOf(log[p].frame)[i])

------------------------------------------------------------------------------
(* Return.                                                                  *)

\* C5: Return(vs) with vs empty yields Null at once; otherwise its only
\* sub-evaluation is that of vs[0], it succeeds exactly if that one does, and
\* it yields its value with nothing happening in between: no other expression
\* of vs is ever evaluated.
C5_ReturnFirstValue ==
    \A q \in Events("eval") :
        log[q].e.kind = "Return" =>
            LET vs == log[q].e.values
                kids == ChildrenOf(q)
            IN  IF vs = <<>>
                THEN /\ kids = {}
                     /\ q + 1 \in DoneOf(q)
                     /\ log[q + 1].value = VNull
                     /\ log[q + 1].vars = log[q].vars
                     /\ log[q + 1].outlen = log[q].outlen
                ELSE /\ kids = {q + 1}
                     /\ log[q + 1].e = vs[1]
                     /\ Succeeded(q) <=> Succeeded(q + 1)
                     /\ \A d \in DoneOf(q) :
                           /\ d - 1 \in DoneOf(q + 1)
                           /\ log[d].value = log[d - 1].value
                           /\ log[d].vars = log[d - 1].vars
                           /\ log[d].outlen = log[d - 1].outlen

\* A Return of three expressions yielded the value of the first where the
\* second names an unbound variable and the third would print.
C5_Witness ==
    \E q \in Events("eval") :
        /\ log[q].e.kind = "Return"
        /\ Len(log[q].e.values) = 3
        /\ log[q].e.values[2] = Identifier(nz)
        /\ nz \notin DOMAIN log[q].vars
        /\ log[q].e.values[3].kind = "Output"
        /\ Succeeded(q)
        /\ ValueOf(q) = VInt(1)
        /\ Len(out) = log[q].outlen

------------------------------------------------------------------------------
(* Declaration and lookup.                                                  *)

\* The done events, up to event s, of the declarations of n in frame F.
Decls(F, n, s) ==
    {d \in 1..s : /\ log[d].k = "done" /\ log[d].frame = F
                  /\ log[d].e.kind = "VarDeclaration" /\ log[d].e.name = n}

Latest(S) == CHOOSE x \in S : \A y \in S : y <= x

IsParam(F, n) == F > 0 /\ n \in DOMAIN log[EnterOf(F)].vars

\* What n is bound to in frame F at event s: the value of the latest
\* declaration completed there, or else that of the parameter.
IsBound(F, n, s) == Decls(F, n, s) # {} \/ IsParam(F, n)

Binding(F, n, s) ==
    IF Decls(F, n, s) # {} THEN log[Latest(Decls(F, n, s))].value
    ELSE log[EnterOf(F)].vars[n]

\* vars is what frame F has bound at event s.
IsBindingsAt(vars, F, s) ==
    /\ \A n \in DOMAIN vars : IsBound(F, n, s) /\ vars[n] = Binding(F, n, s)
    /\ \A d \in 1..s :
          (log[d].k = "done" /\ log[d].frame = F /\ log[d].e.kind = "VarDeclaration")
              => log[d].e.name \in DOMAIN vars
    /\ F > 0 => DOMAIN log[EnterOf(F)].vars \subseteq DOMAIN vars

\* C6: a VarDeclaration(n, e) that succeeds yields the value v of e and
\* binds n to v; the variables of a frame are at every moment its parameters
\* overridden by the latest declaration completed in it (a declaration whose
\* expression fails completes nothing); and Identifier(n) yields the binding
\* of n, succeeding whenever n is bound.
C6_DeclareThenLookup ==
    /\ \A p \in Events("done") :
          log[p].e.kind = "VarDeclaration" =>
              /\ log[p - 1].k = "done"
              /\ log[p - 1].frame = log[p].frame
              /\ log[p - 1].depth = log[p].depth + 1
              /\ log[p - 1].e = log[p].e.value
              /\ log[p].value = log[p - 1].value
              /\ log[p].e.name \in DOMAIN log[p].vars
              /\ log[p].vars[log[p].e.name] = log[p].value
              /\ \A n \in (DOMAIN log[p].vars \cup DOMAIN log[p - 1].vars) \ {log[p].e.name} :
                    /\ n \in DOMAIN log[p].vars
                    /\ n \in DOMAIN log[p - 1].vars
                    /\ log[p].vars[n] = log[p - 1].vars[n]
    /\ \A s \in Events("eval") \cup Events("done") \cup Events("err") :
          IsBindingsAt(log[s].vars, log[s].frame, s)
    /\ IsBindingsAt(env.variables, 0, Len(log))
    /\ \A r \in Events("eval") :
          log[r].e.kind = "Identifier" =>
              IF IsBound(log[r].frame, log[r].e.name, r)
              THEN /\ log[r + 1].k = "done"
                   /\ SameLevel(r + 1, r)
                   /\ log[r + 1].value = Binding(log[r].frame, log[r].e.name, r)
              ELSE /\ log[r + 1].k = "err"
                   /\ log[r + 1].msg = UndefinedVariable(log[r].e.name)

\* x was bound to 1 and looked up, rebound to 2 and looked up again inside a
\* declaration of x whose expression then failed: x is still 2.
C6_Witness ==
    /\ pc = "err"
    /\ nx \in DOMAIN env.variables
    /\ env.variables[nx] = VInt(2)
    /\ \E q \in Events("eval") :
          /\ log[q].frame = 0
          /\ log[q].e.kind = "VarDeclaration"
          /\ log[q].e.name = nx
          /\ ~Succeeded(q)
          /\ \E r1, r2 \in Events("done") :
                /\ q < r1 /\ r1 < r2
                /\ log[r1].e = Identifier(nx) /\ log[r1].value = VInt(1)
                /\ log[r2].e = Identifier(nx) /\ log[r2].value = VInt(2)

------------------------------------------------------------------------------
(* Runtime errors.                                                          *)

\* C7: an Err, created at any depth, is the last thing that happens: no
\* statement or expression is evaluated after it, nothing is printed after
\* it (what was printed before is still there), interpret has returned
\* exactly that Err, and it takes no further step.
C7_ErrorIsFatal ==
    /\ \A r \in Events("err") :
          /\ r = Len(log)
          /\ Len(out) = log[r].outlen
          /\ pc = "err"
          /\ result = log[r].msg
    /\ pc = "err" =>
          /\ log # <<>>
          /\ log[Len(log)].k = "err"
          /\ ~ENABLED NextInterp

\* interpret returned the error of a call made by a call, after output and
\* with statements of the entry left.
C7_Witness ==
    /\ pc = "err"
    /\ out # <<>>
    /\ next_stmt < Len(EntryStatements)
    /\ log[Len(log)].frame > 0
    /\ log[EnterOf(log[Len(log)].frame)].caller > 0

------------------------------------------------------------------------------
(* output.                                                                  *)

RECURSIVE Spaced(_)
Spaced(values) ==
    IF values = <<>> THEN <<>>
    ELSE IF Len(values) = 1 THEN print_value(values[1])
    ELSE print_value(values[1]) \o <<" ">> \o Spaced(Tail(values))

\* The done event of the evaluation that starts at eval event q.
DoneIndex(q) == CHOOSE p \in DoneOf(q) : TRUE

\* C8: the sub-evaluations of Output(args) are those of args[1], args[2],
\* ... in this order, each starting where the one before returned Ok, with
\* nothing printed in between; the Output succeeds exactly if all of them
\* do, and then prints, after the last of them, the values separated by
\* single spaces and a newline, and yields Null; if one fails nothing is
\* printed after the point where it failed.
C8_OutputAfterArguments ==
    \A q \in Events("eval") :
        log[q].e.kind = "Output" =>
            LET args == log[q].e.args
                kids == Ascending(ChildrenOf(q))
                n == Len(kids)
            IN  /\ n <= Len(args)
                /\ args # <<>> => n >= 1
                /\ \A j \in 1..n :
                      /\ log[kids[j]].e = args[j]
                      /\ j < n => Succeeded(kids[j])
                      /\ kids[j] = (IF j = 1 THEN q ELSE DoneIndex(kids[j - 1])) + 1
                      /\ log[kids[j]].outlen =
                            (IF j = 1 THEN log[q].outlen
                             ELSE log[DoneIndex(kids[j - 1])].outlen)
                /\ Succeeded(q) <=> (n = Len(args) /\ \A j \in 1..n : Succeeded(kids[j]))
                /\ Succeeded(q) =>
                      LET d == DoneIndex(q)
                          from == IF n = 0 THEN log[q].outlen
                                  ELSE log[DoneIndex(kids[n])].outlen
                      IN  /\ d = (IF n = 0 THEN q ELSE DoneIndex(kids[n])) + 1
                          /\ log[d].value = VNull
                          /\ log[d].vars = log[d - 1].vars
                          /\ SubSeq(out, from + 1, log[d].outlen) =
                                Spaced([j \in 1..n |-> ValueOf(kids[j])]) \o <<"\n">>
                /\ ~Succeeded(q) =>
                      /\ ~Succeeded(kids[n])
                      /\ log[Len(log)].k = "err" => Len(out) = log[Len(log)].outlen

\* An output of two values printed them, as an argument of an output that
\* then failed on its next argument, having evaluated two.
C8_Witness ==
    \E q \in Events("eval") :
        /\ log[q].e.kind = "Output"
        /\ ~Succeeded(q)
        /\ Cardinality(ChildrenOf(q)) = 3
        /\ \E r \in ChildrenOf(q) :
              /\ log[r].e.kind = "Output"
              /\ Len(log[r].e.args) = 2
              /\ Succeeded(r)
              /\ SubSeq(out, log[r].outlen + 1, Len(out)) = <<"4", " ", "h", "i", "\n">>

------------------------------------------------------------------------------
(* The pipeline.                                                            *)

StageOrder == <<"tokenize", "parse", "check_types", "interpret">>

\* C9: run_program calls tokenize, parse, check_types and interpret in this
\* order, each at most once and each on what the stage before produced;
\* after a failing tokenize it has called nothing else and after a failing
\* parse nothing else, and nothing of interpret happens before its call; the
\* Err it returns is the error of the stage called last behind "Lexer
\* error: ", "Parser error: ", "Type error: " or "Runtime error: ".
C9_PipelineOrder ==
    /\ Len(calls) <= Len(StageOrder)
    /\ \A i \in DOMAIN calls : calls[i] = StageOrder[i]
    /\ Len(calls) >= 1 =>
          \A r \in {tokenize(source)} :
              IF r.ok THEN tokens = r.tokens
              ELSE /\ calls = <<"tokenize">>
                   /\ stage = "done"
                   /\ outcome = [ok |-> FALSE, err |-> <<Lit("Lexer error: ")>> \o r.err]
    /\ Len(calls) >= 2 =>
          \A r \in {parse(tokens)} :
              IF r.ok THEN ast = r.program
              ELSE /\ calls = <<"tokenize", "parse">>
                   /\ stage = "done"
                   /\ outcome = [ok |-> FALSE, err |-> <<Lit("Parser error: ")>> \o r.err]
    /\ Len(calls) < 4 => (pc = "idle" /\ log = <<>> /\ out = <<>>)
    /\ Len(calls) = 4 => program = ast
    /\ (stage = "done" /\ Len(calls) = 3) =>
          outcome = [ok |-> FALSE, err |-> <<Lit("Type error: ")>> \o type_errors[1]]
    /\ (stage = "done" /\ Len(calls) = 4) =>
          outcome = (IF pc = "ok" THEN [ok |-> TRUE, err |-> <<>>]
                     ELSE [ok |-> FALSE, err |-> <<Lit("Runtime error: ")>> \o result])

\* run_program returned the error of parse, called on a non-empty token
\* list, having called tokenize and parse only.
C9_Witness ==
    /\ stage = "done"
    /\ calls = <<"tokenize", "parse">>
    /\ tokens # <<>>
    /\ ~outcome.ok
    /\ outcome.err[1] = Lit("Parser error: ")

\* C10, as stated: whenever run_program has lexed, parsed and checked a
\* source and returned, it has called interpret, whatever check_types
\* returned.
C10_InterpretRegardless ==
    (stage = "done" /\ Len(calls) >= 3) => Len(calls) = 4

\* C10, amended: type diagnostics block.  Once check_types has returned,
\* run_program calls interpret exactly if the list is empty; with a
\* non-empty list it returns "Type error: " and the first diagnostic, and
\* nothing is evaluated or printed.
C10_TypeErrorsBlock ==
    /\ (stage \in {"interpret", "done"} /\ Len(calls) >= 3) =>
          (Len(calls) = 4 <=> type_errors = <<>>)
    /\ (Len(calls) >= 3 /\ type_errors # <<>>) =>
          /\ stage \in {"gate", "done"}
          /\ pc = "idle"
          /\ log = <<>>
          /\ out = <<>>
          /\ stage = "done" =>
                outcome = [ok |-> FALSE, err |-> <<Lit("Type error: ")>> \o type_errors[1]]

\* run_program returned a type error for a source whose only diagnostic is
\* on a statement (y = f(1)) that interpret evaluates without error.
C10_Witness ==
    /\ stage = "done"
    /\ calls = <<"tokenize", "parse", "check_types">>
    /\ Len(type_errors) = 1
    /\ ast.main_block = <<VarDeclaration(ny, FunctionCall(nf, <<IntLiteral(1)>>))>>
    /\ nf \in DOMAIN ast.functions
    /\ ~outcome.ok

------------------------------------------------------------------------------
(* Conversions.                                                             *)

\* The err event of the evaluation that starts at eval event q, if it
\* created an Err itself: a set of at most one index.
ErrOf(q) ==
    {p \in DOMAIN log :
        /\ p > q
        /\ log[p].k = "err"
        /\ SameLevel(p, q)
        /\ \A s \in (q + 1)..(p - 1) : ~(log[s].k \in {"eval", "done"} /\ SameLevel(s, q))}

\* The eval events of the conversions whose operand evaluated to a value.
Conversions ==
    {q \in Events("eval") :
        /\ log[q].e.kind = "TypeConversion"
        /\ \E r \in ChildrenOf(q) : Succeeded(r)}

OperandOf(q) == ValueOf(CHOOSE r \in ChildrenOf(q) : TRUE)

ConvertiblePairs ==
    { <<"Int", TFloat>>, <<"Float", TInt>>, <<"Int", TString>>, <<"Float", TString>>,
      <<"Bool", TString>>, <<"String", TInt>>, <<"String", TFloat>>, <<"String", TBool>> }

\* A decimal integer numeral: digits behind an optional sign.
IsIntegerNumeral(s) ==
    \E k \in 0..1 :
        /\ Len(s) > k
        /\ k = 1 => s[1] \in {"+", "-"}
        /\ \A i \in (k + 1)..Len(s) : \E d \in 1..10 : Digits[d] = s[i]

RECURSIVE NumeralValue(_)
NumeralValue(s) ==
    IF s = <<>> THEN 0
    ELSE IF s[1] = "-" THEN -NumeralValue(Tail(s))
    ELSE IF s[1] = "+" THEN NumeralValue(Tail(s))
    ELSE 10 * NumeralValue(SubSeq(s, 1, Len(s) - 1))
         + ((CHOOSE d \in 1..10 : Digits[d] = s[Len(s)]) - 1)

\* C11: a TypeConversion whose operand evaluated to v returns Ok only for
\* the eight pairings of ConvertiblePairs, and always for those whose source
\* is not a String; for every other pairing (the value's own type, and any
\* conversion of Null, List or Map included) it is the error "Cannot
\* convert v to T".  For String to Int, a decimal integer numeral yields its
\* Int and any other string the error "Cannot convert 's' to int".
C11_Conversions ==
    \A q \in Conversions :
        LET v == OperandOf(q)
            t == log[q].e.target_type
        IN  /\ Succeeded(q) => <<v.t, t>> \in ConvertiblePairs
            /\ (<<v.t, t>> \in ConvertiblePairs /\ v.t # "String") => Succeeded(q)
            /\ <<v.t, t>> \notin ConvertiblePairs =>
                  \E p \in ErrOf(q) :
                      log[p].msg = <<Lit("Cannot convert "), Dbg(v), Lit(" to "), Dbg(t)>>
            /\ (v.t = "String" /\ t = TInt) =>
                  IF IsIntegerNumeral(v.s)
                  THEN Succeeded(q) /\ ValueOf(q) = VInt(NumeralValue(v.s))
                  ELSE \E p \in ErrOf(q) :
                          log[p].msg = <<Lit("Cannot convert '"), Txt(v.s), Lit("' to int")>>
            /\ (Succeeded(q) \/ ErrOf(q) # {})

\* int("42") returned 42, and interpret returned Ok.
C11_Witness ==
    /\ pc = "ok"
    /\ program.main_block =
          <<VarDeclaration(ny, TypeConversion(StringLiteral(<<"4", "2">>), TInt))>>
    /\ \E q \in Conversions : Succeeded(q) /\ ValueOf(q) = VInt(42)
    /\ env.variables[ny] = VInt(42)

------------------------------------------------------------------------------
(* Type compatibility.                                                      *)

Numeric(type) == type \in {TInt, TFloat}

\* C12: types_compatible(a, b) holds exactly when a and b are identical, or
\* either of them is Any, or both are numeric.
C12_Compatible ==
    (given.fn = "types_compatible" /\ returned # <<>>) =>
        LET a == given.args[1]
            b == given.args[2]
        IN  returned[1] <=> (a = b \/ a = TAny \/ b = TAny \/ (Numeric(a) /\ Numeric(b)))

------------------------------------------------------------------------------
(* Diagnostics.                                                             *)

Range(q) == {q[i] : i \in DOMAIN q}

\* The statements of the branches of an If, in order.
Branches(e) ==
    e.then_branch
        \o (IF e.else_if_branches = <<>> THEN <<>> ELSE e.else_if_branches[1][2])
        \o (IF e.else_branch = <<>> THEN <<>> ELSE e.else_branch[1])

\* The names a statement uses as an argument of output or as a statement of
\* a branch of an if.
Mentions(stmt) ==
    CASE stmt.kind = "Output" -> {a.name : a \in {b \in Range(stmt.args) : b.kind = "Identifier"}}
      [] stmt.kind = "If" ->
            {a.name : a \in {b \in Range(Branches(stmt)) : b.kind = "Identifier"}}
      [] OTHER -> {}

\* The names a block declares, at its top level or in a branch of an if.
DeclaredIn(block) ==
    {d.name : d \in {b \in Range(block) : b.kind = "VarDeclaration"}}
        \cup UNION {{d.name : d \in {b \in Range(Branches(i)) : b.kind = "VarDeclaration"}} :
                       i \in {b \in Range(block) : b.kind = "If"}}

\* C13: the list check_types returns holds a diagnostic for every
\* inconsistency of the program, several in one statement included: every
\* variable the entry block uses in an output or in a branch of an if and
\* declares nowhere has its "Undefined variable" diagnostic.
C13_EveryFinding ==
    (given.fn = "check_types" /\ returned # <<>> /\ given.args[1].functions = EmptyMap) =>
        \A stmt \in Range(given.args[1].main_block) :
            \A n \in Mentions(stmt) \ DeclaredIn(given.args[1].main_block) :
                UndefinedVariableMessage(n) \in Range(returned[1])

\* The program given to check_types is one list literal of literals.
IsLiteralList ==
    /\ given.fn = "check_types"
    /\ given.args[1].functions = EmptyMap
    /\ Len(given.args[1].main_block) = 1
    /\ given.args[1].main_block[1].kind = "List"
    /\ \A e \in Range(given.args[1].main_block[1].items) : e \in Literals

\* The positions (from 0) of the elements whose type is neither the type of
\* the first element nor numeric next to a numeric first element.
MixedItems(items) ==
    {i \in 1..(Len(items) - 1) :
        /\ LiteralType(items[i + 1]) # LiteralType(items[1])
        /\ ~(Numeric(LiteralType(items[i + 1])) /\ Numeric(LiteralType(items[1])))}

\* C14: for a list literal of literals check_types returns exactly one
\* diagnostic if some element is not compatible with the first, naming the
\* lowest position of such an element, and none if all elements are
\* compatible with the first or the list is empty.
C14_ListDiagnostic ==
    (IsLiteralList /\ returned # <<>>) =>
        LET items == given.args[1].main_block[1].items
            mixed == MixedItems(items)
            lowest == CHOOSE i \in mixed : \A j \in mixed : i <= j
        IN  IF mixed = {} THEN returned[1] = <<>>
            ELSE returned[1] =
                    << <<Lit("List contains mixed types: item "), Txt(NatToChars(lowest)),
                         Lit(" has type "), Dbg(LiteralType(items[lowest + 1])),
                         Lit(", expected "), Dbg(LiteralType(items[1]))>> >>

\* check_types returned its one diagnostic for [1, 2.5, "a"]: position 2.
C14_Witness ==
    /\ IsLiteralList
    /\ given.args[1].main_block[1].items =
          <<IntLiteral(1), FloatLiteral(25, 1), StringLiteral(<<"a">>)>>
    /\ returned # <<>>
    /\ Len(returned[1]) = 1
    /\ returned[1][1][2] = Txt(<<"2">>)

\* The type of an arithmetic operator on L and R, if it has one.
ArithmeticType(L, R) ==
    IF L = TInt /\ R = TInt THEN <<TInt>>
    ELSE IF Numeric(L) /\ Numeric(R) THEN <<TFloat>>
    ELSE <<>>

\* The type the claim gives `L operator R`: <<type>>, or <<>> if rejected.
BinaryTable(operator, L, R) ==
    CASE operator = "Add" ->
            IF L = TString /\ R = TString THEN <<TString>> ELSE ArithmeticType(L, R)
      [] operator \in {"Subtract", "Multiply", "Divide", "Modulo"} -> ArithmeticType(L, R)
      [] operator \in {"LessThan", "LessThanOrEqual", "GreaterThan", "GreaterThanOrEqual"} ->
            IF (Numeric(L) /\ Numeric(R)) \/ (L = TString /\ R = TString) THEN <<TBool>>
            ELSE <<>>
      [] operator \in {"Equal", "NotEqual"} ->
            IF L = R \/ (Numeric(L) /\ Numeric(R)) THEN <<TBool>> ELSE <<>>
      [] operator \in {"And", "Or"} -> IF L = TBool /\ R = TBool THEN <<TBool>> ELSE <<>>

\* C15: check_expr types a binary operator on operands of types L and R
\* among Int, Float, String, Bool and Null as BinaryTable says, and rejects
\* it where the table has no type.
C15_BinaryTyping ==
    (given.fn = "check_expr" /\ given.args[1].kind = "BinaryOp" /\ returned # <<>>) =>
        LET e == given.args[1]
            expected == BinaryTable(e.operator, LiteralType(e.left), LiteralType(e.right))
        IN  IF expected = <<>> THEN ~returned[1].ok
            ELSE returned[1].ok /\ returned[1].type = expected[1]

\* check_expr rejected "a" - "a".
C15_Witness ==
    /\ given.fn = "check_expr"
    /\ given.args[1] = BinaryOp(StringLiteral(<<"a">>), "Subtract", StringLiteral(<<"a">>))
    /\ returned # <<>>
    /\ ~returned[1].ok
    /\ returned[1].err = <<Lit("Cannot perform arithmetic on types "), Dbg(TString),
                           Lit(" and "), Dbg(TString)>>

------------------------------------------------------------------------------
(* Return statements.                                                       *)

\* The functions of the program given to check_types.
GivenFunctions == {given.args[1].functions[n] : n \in DOMAIN given.args[1].functions}

EndsInReturn(f) == f.body # <<>> /\ f.body[Len(f.body)].kind = "Return"

\* The type of a literal, or of a list literal of literals.
StaticType(e) ==
    IF e.kind = "List"
    THEN TList(IF e.items = <<>> THEN TAny ELSE LiteralType(e.items[1]))
    ELSE LiteralType(e)

HasStaticType(e) ==
    \/ e \in Literals
    \/ e.kind = "List" /\ \A x \in Range(e.items) : x \in Literals

Compatible(a, b) == a = b \/ a = TAny \/ b = TAny \/ (Numeric(a) /\ Numeric(b))

\* C16: for every function whose body ends in a Return, check_types reports
\* the arity diagnostic with both counts if the number of returned
\* expressions differs from the number of declared return types, and
\* otherwise a diagnostic for each position whose value has a type that is
\* not compatible with the type declared at that position.
C16_ReturnChecking ==
    (given.fn = "check_types" /\ returned # <<>>) =>
        \A f \in {g \in GivenFunctions : EndsInReturn(g)} :
            LET values == f.body[Len(f.body)].values
            IN  IF Len(values) # Len(f.return_types)
                THEN <<Lit("Function '"), Txt(f.name), Lit("' returns "),
                       Txt(NatToChars(Len(values))), Lit(" values, but declared to return "),
                       Txt(NatToChars(Len(f.return_types))), Lit(" values")>>
                        \in Range(returned[1])
                ELSE \A i \in DOMAIN values :
                        (/\ HasStaticType(values[i])
                         /\ ~Compatible(StaticType(values[i]), f.return_types[i])) =>
                            \E d \in Range(returned[1]) :
                                Len(d) >= 4 /\ SubSeq(d, 1, 4) = <<Lit("Function '"), Txt(f.name),
                                                    Lit("' return value "),
                                                    Txt(NatToChars(i - 1))>>

MissingReturn(f) == <<Lit("Function '"), Txt(f.name), Lit("' is missing return statement")>>

\* C17: every function that declares return types, other than the one type
\* Null, and whose body does not end in a return statement (an empty body
\* included) has its missing-return diagnostic in the list check_types
\* returns.
C17_MissingReturn ==
    (given.fn = "check_types" /\ returned # <<>>) =>
        \A f \in GivenFunctions :
            (f.return_types # <<>> /\ f.return_types # <<TNull>> /\ ~EndsInReturn(f)) =>
                MissingReturn(f) \in Range(returned[1])

------------------------------------------------------------------------------
(* Parsing.                                                                 *)

\* C18: parse_expression parses binary and unary operators by precedence:
\* each source of OperatorCases (1 + 2 * 3 among them) parses to a program
\* of one statement, the tree the precedence levels give it.
C18_OperatorPrecedence ==
    \A c \in OperatorCases :
        (source = c.source /\ Len(calls) = 2) =>
            /\ stage = "check_types"
            /\ ast = Program(EmptyMap, <<c.expected>>)

\* The words of a text: its parts between blanks, a blank between quotes
\* being part of its word (and a backslash between quotes taking the next
\* character with it).
RECURSIVE Scan(_, _, _, _)
Scan(text, i, quoted, word) ==
    LET done == IF word = <<>> THEN <<>> ELSE <<word>>
    IN  IF i > Len(text) THEN done
        ELSE IF quoted /\ text[i] = "\\" /\ i < Len(text)
        THEN Scan(text, i + 2, TRUE, word \o <<text[i], text[i + 1]>>)
        ELSE IF text[i] = "\"" THEN Scan(text, i + 1, ~quoted, Append(word, text[i]))
        ELSE IF ~quoted /\ text[i] \in {" ", "\t", "\n", "\r"}
        THEN done \o Scan(text, i + 1, FALSE, <<>>)
        ELSE Scan(text, i + 1, quoted, Append(word, text[i]))

Words(text) == Scan(text, 1, FALSE, <<>>)

\* The source consists of literals only.
IsLiteralSource == \A w \in Range(Words(source)) : \E l \in LiteralPieces : l.text = w

NodeOf(w) == (CHOOSE l \in LiteralPieces : l.text = w).node

------------------------------------------------------------------------------
(* Spans                                                                    *)

\* tokenize returned Ok(tokens).
TokenizeSucceeded == Len(calls) >= 1 /\ (Len(calls) = 1 => stage = "parse")

\* The offsets i..stop of the text hold nothing but whitespace, comments to
\* the end of their line and ### comments.
RECURSIVE Ignorable(_, _, _)
Ignorable(text, i, stop) ==
    IF i >= stop THEN i = stop
    ELSE IF At(text, i) \in {" ", "\t", "\n", "\r"} THEN Ignorable(text, i + 1, stop)
    ELSE IF At(text, i) # "#" THEN FALSE
    ELSE \/ \E j \in (i + 1)..stop :
              /\ \A k \in (i + 1)..(j - 1) : At(text, k) # "\n"
              /\ j = Len(text) \/ At(text, j) = "\n"
              /\ Ignorable(text, j, stop)
         \/ \E j \in (i + 6)..stop :
              /\ \A k \in {i + 1, i + 2, j - 3, j - 2, j - 1} : At(text, k) = "#"
              /\ \A k \in (i + 3)..(j - 4) : At(text, k) # "#"
              /\ Ignorable(text, j, stop)

\* Where the token before position k ends and the token at k starts, the
\* source having a token of no width before its first and after its last.
EndBefore(k) == IF k = 1 THEN 0 ELSE tokens[k - 1].span[2]

StartAt(k) == IF k > Len(tokens) THEN Len(source) ELSE tokens[k].span[1]

\* C20: when tokenize succeeds, every span is a non-empty range of the
\* source, each starts at or after the end of the one before it, and what
\* lies before the first, between two and after the last is whitespace and
\* comments only.
C20_SpansCover ==
    TokenizeSucceeded =>
        /\ \A k \in 1..Len(tokens) :
              /\ 0 <= tokens[k].span[1]
              /\ tokens[k].span[1] < tokens[k].span[2]
              /\ tokens[k].span[2] <= Len(source)
        /\ \A k \in 1..(Len(tokens) + 1) :
              /\ EndBefore(k) <= StartAt(k)
              /\ Ignorable(source, EndBefore(k), StartAt(k))

\* tokenize returned two tokens with a ### comment of two lines between
\* them.
C20_Witness ==
    /\ TokenizeSucceeded
    /\ Len(tokens) = 2
    /\ tokens[1].span[2] + 7 = tokens[2].span[1]
    /\ Slice(source, tokens[1].span[2], tokens[2].span[1])
          = <<"#", "#", "#", "\n", "#", "#", "#">>

------------------------------------------------------------------------------
(* Lexical errors                                                           *)

\* tokenize returned Err(..).
TokenizeFailed == Len(calls) >= 1 /\ stage = "done" /\ calls = <<"tokenize">>

\* Offset p is where the source stops being lexable: what is before p is
\* tokenized, and no text that starts at p is.
FirstUnrecognized(p) ==
    /\ tokenize(SubSeq(source, 1, p)).ok
    /\ \A e \in (p + 1)..Len(source) : ~tokenize(SubSeq(source, p + 1, e)).ok

\* How many of the first p characters are newlines, and how many
\* characters follow the last of them.
RECURSIVE NewlinesBefore(_)
NewlinesBefore(p) ==
    IF p = 0 THEN 0 ELSE NewlinesBefore(p - 1) + (IF source[p] = "\n" THEN 1 ELSE 0)

RECURSIVE SinceNewline(_)
SinceNewline(p) == IF p = 0 \/ source[p] = "\n" THEN 0 ELSE 1 + SinceNewline(p - 1)

\* C21: a source that is not lexable makes tokenize return an error and no
\* tokens, nothing is called after it, and the error names the line and the
\* column, both counted from 1, of the first offset where the source stops
\* being lexable, with the text found there.
C21_LexicalError ==
    /\ (Len(calls) >= 1 /\ ~tokenize(source).ok) => TokenizeFailed
    /\ TokenizeFailed =>
          /\ tokens = <<>>
          /\ ~outcome.ok
          /\ \E p \in 0..(Len(source) - 1) :
                /\ FirstUnrecognized(p)
                /\ \A q \in 0..(Len(source) - 1) : FirstUnrecognized(q) => q = p
                /\ \E e \in (p + 1)..Len(source) :
                      outcome.err =
                          <<Lit("Lexer error: "),
                            Lit("Lexical error at line "), Txt(NatToChars(1 + NewlinesBefore(p))),
                            Lit(", column "), Txt(NatToChars(1 + SinceNewline(p))),
                            Lit(": invalid token '"), Txt(SubSeq(source, p + 1, e)), Lit("'")>>

\* tokenize failed on an @ at the start of the second line.
C21_Witness ==
    /\ TokenizeFailed
    /\ source = <<"\n", "@">>
    /\ outcome.err[3] = Txt(<<"2">>)
    /\ outcome.err[5] = Txt(<<"1">>)
    /\ outcome.err[7] = Txt(<<"@">>)

------------------------------------------------------------------------------
(* Function tables                                                          *)

\* The functions the Program declares, as the values interpret registers.
DeclaredFunctions ==
    [name \in DOMAIN program.functions |->
        VFunction(name, program.functions[name].params,
                  program.functions[name].return_types, program.functions[name].body)]

\* The events of the history that happen in an environment.
InEnvironment(p) == log[p].k \in {"eval", "done", "err", "enter"}

\* C22: before interpret has registered the functions nothing is evaluated;
\* from then on the function table of the top-level environment, and of
\* the environment of every evaluation in every frame, is the table of the
\* functions the Program declares, and no call of a declared function
\* finds it undefined, whatever variables have been declared.
C22_FunctionTable ==
    /\ pc = "start" => (log = <<>> /\ env.functions = EmptyMap)
    /\ pc \notin {"idle", "start"} =>
          /\ env.functions = DeclaredFunctions
          /\ \A p \in DOMAIN log :
                /\ InEnvironment(p) => log[p].funs = DeclaredFunctions
                /\ log[p].k = "err" =>
                      \A name \in DOMAIN program.functions :
                          log[p].msg # <<Lit("Undefined function: "), Txt(name)>>

\* A function was called in a frame, and returned, where a variable of its
\* name was declared.
C22_Witness ==
    /\ pc = "ok"
    /\ \E p \in DOMAIN log :
          /\ log[p].k = "done"
          /\ log[p].frame > 0
          /\ log[p].e.kind = "FunctionCall"
          /\ log[p].e.name \in DOMAIN log[p].vars
          /\ log[p].vars[log[p].e.name] = VInt(2)

------------------------------------------------------------------------------
(* The checker and the evaluator                                            *)

\* check_types returned no diagnostic for the program interpret was given.
TypesAccepted == "interpret" \in Range(calls) /\ type_errors = <<>> /\ program = ast

\* C23: once check_types has returned no diagnostic, every identifier the
\* evaluator looks up is bound in the environment of the lookup, and
\* interpret does not fail with "Undefined variable".
C23_CheckedScoping ==
    TypesAccepted =>
        /\ \A p \in DOMAIN log :
              /\ (log[p].k = "eval" /\ log[p].e.kind = "Identifier") =>
                    log[p].e.name \in DOMAIN log[p].vars
              /\ log[p].k = "err" => log[p].msg[1] # Lit("Undefined variable: ")
        /\ pc = "err" => result[1] # Lit("Undefined variable: ")

\* The value has the type, or a type compatible with it.
RECURSIVE HasType(_, _)
HasType(value, type) ==
    IF value.t = "List"
    THEN type = TAny \/ (type.ty = "List" /\ \A i \in DOMAIN value.items :
                                                HasType(value.items[i], type.elem))
    ELSE Compatible([ty |-> value.t], type)

\* The function whose body runs in the frame.
FunctionOf(frame) ==
    program.functions[log[CHOOSE p \in DOMAIN log :
                              log[p].k = "enter" /\ log[p].frame = frame].fn]

\* C24: once check_types has returned no diagnostic, every call that
\* returns a value from a function with declared return types returns a
\* value of a type compatible with the first of them.
C24_CheckedReturns ==
    TypesAccepted =>
        \A p \in DOMAIN log :
            (log[p].k = "exit" /\ FunctionOf(log[p].frame).return_types # <<>>) =>
                HasType(log[p].value, FunctionOf(log[p].frame).return_types[1])

------------------------------------------------------------------------------
(* Determinism                                                              *)

\* C25: the diagnostics check_types returned are the diagnostics it returns
\* under every order in which the function table can be iterated, and so
\* is the first of them, which run_program reports.
C25_SameDiagnostics ==
    "check_types" \in Range(calls) =>
        \A order \in IterationOrders(ast.functions) :
            /\ type_errors = check_types(ast, order)
            /\ (stage = "done" /\ type_errors # <<>>) =>
                  outcome = ReturnedErr("Type error: ", check_types(ast, order)[1])

------------------------------------------------------------------------------
(* Termination of parse                                                     *)

\* The cursor is within the tokens, no running call started beyond it, and
\* a statement loop has taken no more statements than tokens were consumed
\* since it started.
CursorInRange ==
    /\ parser.current \in 0..Len(parser.tokens)
    /\ \A i \in DOMAIN parser.stack :
          /\ parser.stack[i].from <= parser.current
          /\ parser.stack[i].fn \in {"program", "function"} =>
                Len(parser.stack[i].items) <= parser.current - parser.stack[i].from

\* A step of the descent does not move the cursor back, and a call of
\* parse_expression, parse_type or parse_function_declaration that returns
\* Ok leaves the cursor beyond where the call found it.
CursorAdvances ==
    /\ parser'.current >= parser.current
    /\ (/\ parser.stack # <<>>
        /\ Len(parser'.stack) < Len(parser.stack)
        /\ parser'.ret.res = "Ok"
        /\ PTop(parser).fn \in {"expr", "type", "function"}) =>
            parser'.current > PTop(parser).from

\* C26: during parse the cursor stays within the tokens and never moves
\* back, every call of parse_expression, parse_type and
\* parse_function_declaration that succeeds has consumed a token, and
\* parse returns.
C26_ParseTerminates ==
    /\ [](given.fn = "parse" => CursorInRange)
    /\ [][CursorAdvances]_all_vars
    /\ <>(given.fn = "parse" => returned # <<>>)

\* parse returned a Program with a function of two statements, having
\* consumed every token.
C26_Witness ==
    /\ given.fn = "parse"
    /\ returned # <<>>
    /\ returned[1].ok
    /\ parser.current = Len(parser.tokens)
    /\ \E name \in DOMAIN returned[1].program.functions :
          Len(returned[1].program.functions[name].body) >= 2

------------------------------------------------------------------------------
(* Termination of interpret                                                 *)

\* The expressions an expression holds.
Parts(e) ==
    CASE e.kind = "VarDeclaration" -> <<e.value>>
      [] e.kind = "Return" -> e.values
      [] e.kind \in {"FunctionCall", "Output"} -> e.args
      [] e.kind \in {"OutputFormatted", "TypeConversion"} -> <<e.expr>>
      [] e.kind = "List" -> e.items
      [] OTHER -> <<>>

\* The calls of declared functions written in an expression, as the
\* sequence of the names called.
RECURSIVE CallsIn(_)
RECURSIVE CallsInAll(_)
CallsIn(e) ==
    (IF e.kind = "FunctionCall" /\ e.name \in DOMAIN program.functions THEN <<e.name>> ELSE <<>>)
        \o CallsInAll(Parts(e))

CallsInAll(exprs) == IF exprs = <<>> THEN <<>> ELSE CallsIn(Head(exprs)) \o CallsInAll(Tail(exprs))

\* The functions a set of functions can come to call.
RECURSIVE CalledFrom(_)
CalledFrom(names) ==
    LET more == names \cup UNION {Range(CallsInAll(program.functions[f].body)) : f \in names}
    IN  IF more = names THEN names ELSE CalledFrom(more)

\* The functions that can run, and whether one of them can call itself.
Reachable == CalledFrom(Range(CallsInAll(EntryStatements)))

NonRecursive ==
    \A f \in Reachable : f \notin CalledFrom(Range(CallsInAll(program.functions[f].body)))

\* The longest chain of calls that starts in the statements.
RECURSIVE ChainDepth(_)
ChainDepth(stmts) ==
    LET deeper == {1 + ChainDepth(program.functions[f].body) : f \in Range(CallsInAll(stmts))}
    IN  IF deeper = {} THEN 0 ELSE CHOOSE d \in deeper : \A o \in deeper : o <= d

RECURSIVE SumOver(_, _)
SumOver(S, count) ==
    IF S = {} THEN 0
    ELSE LET f == CHOOSE x \in S : TRUE
         IN  Len(count[f]) + SumOver(S \ {f}, count)

\* The statements and the calls written in what can run.
ProgramSize ==
    Len(EntryStatements) + SumOver(Reachable, [f \in Reachable |-> program.functions[f].body])

CallSites ==
    Len(CallsInAll(EntryStatements))
        + SumOver(Reachable, [f \in Reachable |-> CallsInAll(program.functions[f].body)])

RECURSIVE Power(_, _)
Power(b, n) == IF n = 0 THEN 1 ELSE b * Power(b, n - 1)

\* At most (CallSites + 1)^depth frames run, each at most ProgramSize
\* statements.
StatementBound == ProgramSize * Power(CallSites + 1, ChainDepth(EntryStatements))

\* C27: if no function that can run can call itself, interpret returns Ok
\* or a runtime error, without exhausting the stack, and the statements it
\* has evaluated are never more than the bound that the size of the program
\* and the depth of its calls give.
C27_InterpretTerminates ==
    /\ [](NonRecursive =>
            /\ pc # "abort"
            /\ Cardinality(Events("stmt")) <= StatementBound)
    /\ <>(NonRecursive => pc \in {"ok", "err"})

\* interpret returned from a program whose calls are two deep, after three
\* frames had run.
C27_Witness ==
    /\ NonRecursive
    /\ pc \in {"ok", "err"}
    /\ ChainDepth(EntryStatements) = 2
    /\ frames >= 3

====
